---- MODULE Spec2Model ----
(***************************************************************************)
(* Censorly: a model of the job lifecycle (Analyses Router, Background     *)
(* Worker), of detection ingestion, of the Auth Router and of profile      *)
(* resolution, translated from the Python sources.                         *)
(*                                                                         *)
(* The module holds several groups of variables; each specification        *)
(* drives one group and leaves the others at their idle value.             *)
(***************************************************************************)
EXTENDS Integers, Sequences, FiniteSets, TLC

VARIABLES
    \* ---- relational database: video_assets, analysis_jobs, detection_events
    videos,     \* set of storage keys, one per VideoAsset row (storage_key is unique)
    jobs,       \* sequence of AnalysisJob rows; the index is the job id
    dets,       \* sequence of DetectionEvent rows; the index is the autoincrement id
    \* ---- local file system seen by the worker
    files,      \* set of paths that exist
    logs,       \* set of job ids whose JSON-Lines log exists at the job's log path
    \* ---- Background Worker (apps/worker/main.py)
    w_pc,       \* "poll" | "picked": position inside process_one
    w_job,      \* the job process_one holds (0: none)
    \* ---- last HTTP response of an ingestion request
    resp,
    \* ---- Auth Router: clock, users table, user_refresh_tokens, Redis, tokens handed out
    now,         \* seconds since the service started
    users,       \* set of registered e-mail addresses (the user id is the address)
    refresh_tbl, \* user_refresh_tokens: set of [jti, user_id]
    blacklist,   \* Redis key jwt:blacklist: [members, exp] (exp: Some(t) or None)
    rl,          \* Redis keys rl:login:<host>:<email>: key -> [count, exp]
    issued,      \* every token the service has signed
    aresp,       \* last response of an Auth Router request or auth dependency
    \* ---- preference_profiles and the last profile resolution
    profiles,    \* sequence of [user_id, name]; the index is the profile id
    presp,
    \* ---- a call of a function of the code: its arguments and what it returned
    arg,         \* the arguments of the call
    res,         \* None before the call, Some(result) after it
    \* ---- Redactions Router: object storage, renderer runs and the last response
    objects,     \* object names redacted/<video_id>/<timestamp>.mp4 in the bucket
    renders,     \* number of runs of the renderer (pipeline_redact) so far
    clock,       \* datetime.utcnow() in seconds, as used in object names
    rendered,    \* history: [video_id, job, profile, object] of every upload answered 200
    dresp,       \* last response of GET /redactions/download/{video_id}
    \* ---- services/redaction_service.render_or_get
    plans,       \* redaction_plans rows
    outputs,     \* outputs rows: [video_id, profile_hash]
    derived,     \* history: <<video_id, profile_hash>> of every marker list derived
    rog,         \* per caller: where its render_or_get call stands, and its locals
    rresp,       \* what the last finished render_or_get call returned or raised
    \* ---- Analysis Orchestrator (ai/inference/pipeline_analyze.py run), API configured
    o_pc,        \* "start" | "loop" | "flush" | "finish" | "except" | "done" | "raised"
    o_calls,     \* the outbound calls attempted so far: [kind, status, ok]
    o_buffer,    \* number of detections in the API buffer
    o_frames,    \* frames the sampler has still to yield
    o_err,       \* an error was raised inside the try block
    \* ---- Temporal Stabilizer (ai/inference/temporal_stabilizer.py)
    st_tracks,   \* self.tracks: tid -> Track
    st_next_tid, \* self.next_tid
    st_t,        \* t_ms of the last update call
    st_out,      \* what the last update call returned (each tuple with its track id)
    st_assigned, \* the assigned map of the last update call: tid -> detection
    st_updates,  \* number of update calls so far
    \* ---- POST /auth/refresh requests in flight, one per caller
    rf,          \* per caller: where its refresh_token call stands, and the token it holds
    rf_log,      \* history: [caller, jti, code, new_jti] of every request answered with a token pair
    \* ---- legacy Uploads Router: the background task of each job it created
    bg,          \* per job id: "none", or where run_pipeline stands for that job
    \* ---- the orchestrator's buffer and what the server stored from it
    ob_items,    \* the buffer list: the kept detections not yet cleared
    ob_rows      \* DetectionEvent rows the ingest handler committed for the job

dbVars     == <<videos, jobs, dets>>
fsVars     == <<files, logs>>
workerVars == <<w_pc, w_job>>
jobVars    == <<videos, jobs, dets, files, logs, w_pc, w_job, resp>>

authVars   == <<now, users, refresh_tbl, blacklist, rl, issued, aresp>>
profVars   == <<profiles, presp>>

fnVars     == <<arg, res>>
rogVars    == <<plans, outputs, derived, rog, rresp>>
orchVars   == <<o_pc, o_calls, o_buffer, o_frames, o_err>>
stabVars   == <<st_tracks, st_next_tid, st_t, st_out, st_assigned, st_updates>>
rfVars     == <<rf, rf_log>>
bgVars     == <<bg>>
bufVars    == <<ob_items, ob_rows>>
svcVars    == <<objects, renders, clock, rendered, dresp, rogVars, orchVars, stabVars, rfVars, bgVars, bufVars>>

vars == <<jobVars, authVars, profVars, fnVars, svcVars>>

----------------------------------------------------------------------------
(* Bounds of the model *)
MaxJobs  == 2      \* AnalysisJob rows created in one behaviour
MaxRows  == 2      \* DetectionEvent rows stored in one behaviour
MaxTmp   == 2      \* temporary files left behind on disk at one time
MaxPairs == 2      \* token pairs signed in one behaviour
MaxAttempts == 7   \* login attempts counted under one rate-limit key
MaxNowAuth  == 3600  \* seconds the clock runs in SpecAuth
MaxNowLogin == 90    \* seconds the clock runs in SpecLogin
MaxProfiles == 3   \* preference_profiles rows
MaxStamp    == 3   \* distinct updated_at values of preference_profiles

(* Optional values: None is the empty sequence, Some(x) the singleton. *)
None     == <<>>
Some(x)  == <<x>>

Max(S)   == CHOOSE x \in S : \A y \in S : y <= x
Min(S)   == CHOOSE x \in S : \A y \in S : x <= y

----------------------------------------------------------------------------
(* Storage keys are token sequences: the first token carries what the code *)
(* looks at (a leading "/" or the "minio://" scheme).                      *)
AbsKey   == <<"/", "data", "uploads", "a.mp4">>
RelKey   == <<"uploads", "b.mp4">>
MinioKey == <<"minio://", "videos", "c.mp4">>
GoneKey  == <<"/", "data", "uploads", "gone.mp4">>
EmptyKey == <<>>

SampleKeys == {AbsKey, RelKey, MinioKey, GoneKey, EmptyKey}

\* str.startswith("/")
StartsWithSlash(k) == Len(k) > 0 /\ k[1] = "/"
\* minio_utils.is_minio_url
is_minio_url(k)    == Len(k) > 0 /\ k[1] = "minio://"
\* tempfile.NamedTemporaryFile(delete=False).name: a fresh name under /tmp
TmpNames           == <<"tmp1", "tmp2", "tmp3", "tmp4", "tmp5", "tmp6">>
TmpPath(n)         == <<"/", "tmp", TmpNames[n]>>
TmpFiles(fs)       == {n \in 1..Len(TmpNames) : TmpPath(n) \in fs}
FreshTmp(fs)       == TmpPath(Min((1..Len(TmpNames)) \ TmpFiles(fs)))
\* os.path.exists / os.path.samefile over the modelled file system
PathExists(k, fs)  == k \in fs
SameFile(a, b)     == a = b

----------------------------------------------------------------------------
(* analysis_jobs *)
JobStatus == {"queued", "running", "done", "failed"}
JobIds    == 1..Len(jobs)

NewJob(v, st, started, at) ==
    [video_id |-> v, status |-> st, created_at |-> at,
     started_at |-> started, finished_at |-> FALSE]

\* datetime.utcnow() at creation: not before any earlier created_at; two rows
\* created within the clock's resolution carry the same value.
LastCreated == IF jobs = <<>> THEN 0 ELSE Max({jobs[i].created_at : i \in JobIds})
CreatedNow  == {LastCreated, LastCreated + 1} \ {0}

Reply(code, n) == [code |-> code, inserted |-> n]

SetStatus(js, j, st) == [js EXCEPT ![j].status = st]
\* job.started_at = datetime.utcnow() / job.finished_at = datetime.utcnow()
StampStart(js, j)    == [js EXCEPT ![j].started_at = TRUE]
StampFinish(js, j)   == [js EXCEPT ![j].finished_at = TRUE]

----------------------------------------------------------------------------
(* detection_events: a detection as posted to /ingest (DetectionIn), with  *)
(* the score in hundredths; raw_label stands for extra.raw_label ("" when  *)
(* the extra bag has none).                                                *)
Det(ts, label, score, raw) ==
    [ts_ms |-> ts, label |-> label, score |-> score, raw_label |-> raw]

ALLOWED_LABELS == {"alcohol", "blood", "violence", "phobic", "obscene"}

\* pydantic: ts_ms: int = Field(ge=0); score: confloat(ge=0.0, le=1.0)
DetectionInValid(d) == d.ts_ms >= 0 /\ d.score >= 0 /\ d.score <= 100

\* A candidate row; score is optional until the database sees it.
Row(j, ts, label, score, raw) ==
    [job_id |-> j, ts_ms |-> ts, label |-> label, score |-> score, raw_label |-> raw]

\* the same table without its two check constraints
RowAcceptedNoCk(r) == r.label \in ALLOWED_LABELS /\ r.score # None
\* data/schema.py DetectionEvent: label enum, score NOT NULL, ck_det_ts, ck_det_score
RowAccepted(r) ==
    /\ r.label \in ALLOWED_LABELS
    /\ r.score # None
    /\ r.ts_ms >= 0
    /\ r.score[1] >= 0 /\ r.score[1] <= 100

\* db.add_all(rows); db.commit(): one transaction, all rows or an IntegrityError
CommitAccepts(rows) == \A i \in 1..Len(rows) : RowAccepted(rows[i])
Stored(rows) ==
    [i \in 1..Len(rows) |->
        [job_id |-> rows[i].job_id, ts_ms |-> rows[i].ts_ms, label |-> rows[i].label,
         score |-> rows[i].score[1], raw_label |-> rows[i].raw_label]]

----------------------------------------------------------------------------
(* Analyses Router (apps/api/routers/analyses.py)                          *)
ReqJobIds == 1..MaxJobs          \* job ids a request may name (known or not)
UnknownKey == <<"minio://", "videos", "unknown.mp4">>

\* POST /analysis/jobs
CreateJob(v) ==
    /\ Len(jobs) < MaxJobs
    /\ IF v \notin videos
         THEN UNCHANGED jobs                                   \* 404
         ELSE \E at \in CreatedNow :
                 jobs' = Append(jobs, NewJob(v, "queued", FALSE, at))
    /\ UNCHANGED <<videos, dets, fsVars, workerVars, resp, authVars, profVars, fnVars, svcVars>>

\* POST /analysis/jobs/{job_id}/start
JobStart(j) ==
    /\ IF j \notin JobIds
         THEN UNCHANGED jobs                                   \* 404
         ELSE jobs' = StampStart(SetStatus(jobs, j, "running"), j)
    /\ UNCHANGED <<videos, dets, fsVars, workerVars, resp, authVars, profVars, fnVars, svcVars>>

\* The ingest handler up to its commit: the response code and the rows it adds.
\* 422: the body fails DetectionIn validation before the handler runs.
FirstBadLabel(body) ==
    Min({i \in 1..Len(body) : body[i].label \notin ALLOWED_LABELS} \cup {Len(body) + 1})
IngestRows(j, body) ==
    [i \in 1..Len(body) |->
        Row(j, body[i].ts_ms, body[i].label, Some(body[i].score), body[i].raw_label)]
\* the handler committing each row as it goes
IngestOutcomePartial(j, body) ==
    IF \E i \in 1..Len(body) : ~DetectionInValid(body[i])
      THEN [code |-> 422, rows |-> <<>>]
    ELSE IF j \notin JobIds
      THEN [code |-> 404, rows |-> <<>>]
    ELSE IF FirstBadLabel(body) <= Len(body)
      THEN [code |-> 400, rows |-> SubSeq(IngestRows(j, body), 1, FirstBadLabel(body) - 1)]
    ELSE [code |-> 200, rows |-> IngestRows(j, body)]
IngestOutcome(j, body) ==
    IF \E i \in 1..Len(body) : ~DetectionInValid(body[i])
      THEN [code |-> 422, rows |-> <<>>]
    ELSE IF j \notin JobIds
      THEN [code |-> 404, rows |-> <<>>]
    ELSE IF FirstBadLabel(body) <= Len(body)
      THEN [code |-> 400, rows |-> <<>>]
    ELSE [code |-> 200, rows |-> IngestRows(j, body)]

\* POST /analysis/jobs/{job_id}/ingest
Ingest(j, body) ==
    /\ Len(dets) + Len(body) <= MaxRows
    /\ LET o == IngestOutcome(j, body) IN
        IF CommitAccepts(o.rows)
          THEN /\ dets' = dets \o Stored(o.rows)
               /\ resp' = Reply(o.code, Len(o.rows))
          ELSE /\ dets' = dets
               /\ resp' = Reply(500, 0)
    /\ UNCHANGED <<videos, jobs, fsVars, workerVars, authVars, profVars, fnVars, svcVars>>

\* status: JobStatusPy = JobStatusPy.done -- a query parameter; a JSON body
\* sent with the request is not bound to it.
QueryStatus == JobStatus \cup {"none"}
BodyStatus  == {"none", "done", "failed"}
FinishStatus(q, body) == IF q = "none" THEN "done" ELSE q

\* POST /analysis/jobs/{job_id}/finish
JobFinish(j, q, body) ==
    /\ IF j \notin JobIds
         THEN UNCHANGED jobs                                   \* 404
         ELSE jobs' = StampFinish(SetStatus(jobs, j, FinishStatus(q, body)), j)
    /\ UNCHANGED <<videos, dets, fsVars, workerVars, resp, authVars, profVars, fnVars, svcVars>>

\* POST /analysis/jobs/{job_id}/force_dummy
ForceDummy(j) ==
    /\ IF j \notin JobIds \/ (j \in JobIds /\ jobs[j].video_id \notin videos)
         THEN UNCHANGED <<jobs, logs>>                         \* 404
         ELSE /\ logs' = logs \cup {j}
              /\ jobs' = StampFinish(SetStatus(jobs, j, "done"), j)
    /\ UNCHANGED <<videos, dets, files, workerVars, resp, authVars, profVars, fnVars, svcVars>>

----------------------------------------------------------------------------
(* Videos Router (apps/api/routers/videos.py): upload, synchronous analysis *)
(* and ingestion of the analyzer's JSON-Lines output.                      *)
(* A JSON-Lines object: ts in tenths of a millisecond (JSON numbers may be *)
(* fractional), score and confidence in hundredths; absent fields are None *)
(* and an absent label is "".                                              *)
Obj(ts, label, score, confidence, raw) ==
    [ts_ms |-> ts, label |-> label, score |-> score,
     confidence |-> confidence, raw_label |-> raw]

_DB_LABELS    == {"alcohol", "blood", "violence", "phobic", "obscene"}
_PHOBIC_CANON == [k \in {"clown", "spider", "snake"} |->
                    CASE k = "clown" -> "Clown" [] k = "spider" -> "Spider" [] OTHER -> "Snake"]

\* str.lower() and the "phobic/" prefix split, over the labels the model feeds in
Lower(s) ==
    CASE s = "Clown" -> "clown" [] s = "Blood" -> "blood" [] s = "Snake" -> "snake"
      [] s = "Spider" -> "spider" [] OTHER -> s
HasPhobicPrefix(low) == low \in {"phobic/spider", "phobic/clown", "phobic/snake"}
AfterSlash(low) ==
    CASE low = "phobic/spider" -> "spider" [] low = "phobic/clown" -> "clown"
      [] low = "phobic/snake" -> "snake" [] OTHER -> low

\* extra.setdefault("raw_label", v)
SetDefaultRaw(raw, v) == IF raw = "" THEN v ELSE raw

_norm_label(label, raw) ==
    LET s   == label
        l0  == Lower(s)
        low == IF HasPhobicPrefix(l0) THEN AfterSlash(l0) ELSE l0
    IN  IF low \in DOMAIN _PHOBIC_CANON
          THEN [label |-> "phobic", raw_label |-> SetDefaultRaw(raw, _PHOBIC_CANON[low])]
        ELSE IF low \in {"nudity", "obscene", "nudenet"}
          THEN [label |-> "obscene", raw_label |-> raw]
        ELSE IF \E k \in DOMAIN _PHOBIC_CANON : _PHOBIC_CANON[k] = s
          THEN [label |-> "phobic", raw_label |-> SetDefaultRaw(raw, s)]
        ELSE IF low \in _DB_LABELS
          THEN [label |-> low, raw_label |-> raw]
        ELSE [label |-> s, raw_label |-> raw]

\* int(ts_ms): truncation toward zero
IntOfTenths(t) == IF t >= 0 THEN t \div 10 ELSE -((-t) \div 10)
\* obj.get("score") or obj.get("confidence"): a zero score is falsy
ScoreOrConfidence(o) ==
    IF o.score # None /\ o.score[1] # 0 THEN o.score ELSE o.confidence

\* the rows _ingest_jsonl_to_db builds from the lines of the file
RECURSIVE JsonlRows(_, _)
JsonlRows(j, lines) ==
    IF lines = <<>> THEN <<>>
    ELSE LET o == Head(lines)
             n == _norm_label(o.label, o.raw_label)
         IN  IF o.ts_ms = None \/ o.label = "" \/ n.label \notin ALLOWED_LABELS
               THEN JsonlRows(j, Tail(lines))
               ELSE <<Row(j, IntOfTenths(o.ts_ms[1]), n.label, ScoreOrConfidence(o),
                          n.raw_label)>> \o JsonlRows(j, Tail(lines))

\* if len(rows) >= 1000: db.add_all(rows); db.commit(); rows.clear()
CHUNK == 1000
\* the rows that end up stored: every chunk commits on its own, and the first
\* chunk the database rejects raises out of the loop
RECURSIVE CommitChunks(_)
CommitChunks(rows) ==
    IF rows = <<>> THEN [rows |-> <<>>, ok |-> TRUE]
    ELSE LET n    == IF Len(rows) < CHUNK THEN Len(rows) ELSE CHUNK
             head == SubSeq(rows, 1, n)
             tail == SubSeq(rows, n + 1, Len(rows))
         IN  IF ~CommitAccepts(head)
               THEN [rows |-> <<>>, ok |-> FALSE]
               ELSE LET r == CommitChunks(tail)
                    IN  [rows |-> Stored(head) \o r.rows, ok |-> r.ok]

\* storage_key = f"minio://{bucket}/videos/{uuid4()}{ext}": a fresh key per upload
UpNames      == <<"up1.mp4", "up2.mp4", "up3.mp4", "up4.mp4", "up5.mp4", "up6.mp4">>
UploadKey(n) == <<"minio://", "videos", UpNames[n]>>
CountOf(ds, j) == Cardinality({i \in 1..Len(ds) : ds[i].job_id = j})

\* POST /videos/upload: store the asset, create its job as running, run the
\* analyzer, ingest its output, mark the job done; any exception answers 500
\* and leaves what was committed before it.
UploadVideo(lines, analyzer_ok) ==
    /\ Len(jobs) < MaxJobs
    /\ Len(dets) + Len(lines) <= MaxRows
    /\ LET j   == Len(jobs) + 1
           key == UploadKey(j)
           c   == CommitChunks(JsonlRows(j, lines))
       IN  /\ videos' = videos \cup {key}
           /\ \E at \in CreatedNow :
                LET js == Append(jobs, NewJob(key, "running", TRUE, at))
                IN  IF ~analyzer_ok
                      THEN /\ jobs' = js
                           /\ dets' = dets
                           /\ resp' = Reply(500, 0)
                    ELSE IF ~c.ok
                      THEN /\ jobs' = js
                           /\ dets' = dets \o c.rows
                           /\ resp' = Reply(500, 0)
                    ELSE /\ jobs' = StampFinish(SetStatus(js, j, "done"), j)
                         /\ dets' = dets \o c.rows
                         /\ resp' = Reply(200, CountOf(dets \o c.rows, j))
    /\ UNCHANGED <<fsVars, workerVars, authVars, profVars, fnVars, svcVars>>

----------------------------------------------------------------------------
(* Analysis Orchestrator (ai/inference/pipeline_analyze.py): its start and *)
(* finish notifications, each a post_json call with a JSON body and no     *)
(* query string.                                                           *)
OrchStart(j)      == JobStart(j)
OrchFinish(j, st) == JobFinish(j, "none", st)

----------------------------------------------------------------------------
(* Background Worker (apps/worker/main.py)                                 *)

\* resolve_to_local: the local path (None when it raised) and the file system
\* it leaves. fget_minio_to_temp creates the temporary file before it
\* downloads, so a failed download leaves the file behind.
resolve_to_local(key, fs, download_ok) ==
    IF key # EmptyKey /\ PathExists(key, fs)
      THEN [local |-> Some(key), files |-> fs]
    ELSE IF is_minio_url(key)
      THEN [local |-> IF download_ok THEN Some(FreshTmp(fs)) ELSE None,
            files |-> fs \cup {FreshTmp(fs)}]
    ELSE [local |-> None, files |-> fs]

\* The finally block of process_one:
\*   if local_video and (not va.storage_key.startswith("/")
\*                       or not os.path.samefile(local_video, va.storage_key)):
\*       os.remove(local_video)
CleanupLocal(local, key, fs) ==
    IF local # None /\ (~StartsWithSlash(key) \/ ~SameFile(local[1], key))
      THEN fs \ {local[1]}
      ELSE fs

\* select(AnalysisJob).where(status == "queued").order_by(created_at.asc()).limit(1):
\* the candidates (rows with equal created_at come in an order the database picks)
QueuedJobs(js)   == {i \in 1..Len(js) : js[i].status = "queued"}
\* the same select ordered by created_at descending
NewestQueued(js) ==
    {i \in QueuedJobs(js) : \A k \in QueuedJobs(js) : js[i].created_at >= js[k].created_at}
OldestQueued(js) ==
    {i \in QueuedJobs(js) : \A k \in QueuedJobs(js) : js[i].created_at <= js[k].created_at}

\* ANALYZE_BACKEND = local runs the analyzer; dummy, or a failed analyzer,
\* writes the dummy log: ok is TRUE whenever no exception was raised.
AnalyzeOk(backend, local_ok) ==
    LET ok == (backend = "local" /\ local_ok)
    IN  IF backend = "dummy" \/ ~ok THEN TRUE ELSE ok

AnalyzerRuns == {<<"dummy", FALSE>>, <<"local", FALSE>>, <<"local", TRUE>>}

\* process_one, first part: select the oldest queued job, mark it running, commit
WorkerPick ==
    /\ w_pc = "poll"
    /\ \E j \in OldestQueued(jobs) :
          /\ jobs' = StampStart(SetStatus(jobs, j, "running"), j)
          /\ w_job' = j
    /\ w_pc' = "picked"
    /\ UNCHANGED <<videos, dets, fsVars, resp, authVars, profVars, fnVars, svcVars>>

\* process_one with no queued job: return False (main then sleeps 2 s)
WorkerPollEmpty ==
    /\ w_pc = "poll"
    /\ QueuedJobs(jobs) = {}
    /\ UNCHANGED vars

\* The status process_one commits for its job, and the file system it leaves:
\* failed when the video row or its storage key is missing, failed when
\* resolving or analysing raised, else done with the finish time stamped.
ProcessResult(key, known, fs, download_ok, io_ok, backend, local_ok) ==
    IF ~known \/ key = EmptyKey
      THEN [status |-> "failed", stamp |-> FALSE, log |-> FALSE, files |-> fs]
    ELSE LET r      == resolve_to_local(key, fs, download_ok)
             raised == r.local = None \/ ~io_ok
             ok     == AnalyzeOk(backend, local_ok)
         IN  [status |-> IF raised \/ ~ok THEN "failed" ELSE "done",
              stamp  |-> ~raised /\ ok,
              log    |-> ~raised,
              files  |-> CleanupLocal(r.local, key, r.files)]

\* process_one, second part: look the video up, resolve it, analyse, commit
\* the final status, clean up
WorkerProcess(download_ok, io_ok, backend, local_ok) ==
    /\ w_pc = "picked"
    /\ Cardinality(TmpFiles(files)) < MaxTmp
    /\ LET j == w_job
           key == jobs[j].video_id
           r == ProcessResult(key, key \in videos, files,
                              download_ok, io_ok, backend, local_ok)
       IN  /\ jobs' = IF r.stamp THEN StampFinish(SetStatus(jobs, j, r.status), j)
                                  ELSE SetStatus(jobs, j, r.status)
           /\ logs' = IF r.log THEN logs \cup {j} ELSE logs
           /\ files' = r.files
    /\ w_pc' = "poll"
    /\ w_job' = 0
    /\ UNCHANGED <<videos, dets, resp, authVars, profVars, fnVars, svcVars>>

----------------------------------------------------------------------------
(* Auth Router (apps/api/routers/auth.py, services/auth_service.py).       *)
(* Time is in seconds. A token is its claims plus whether its signature    *)
(* verifies under the service's JWT secret.                                *)
ACCESS_TOKEN_EXPIRE_MINUTES == 45
REFRESH_TOKEN_EXPIRE_DAYS   == 21
limit  == 5
window == 60

Emails == {"a@x", "b@x"}
Hosts  == {"10.0.0.1"}

\* auth_service._claims: jti is a fresh uuid4
_claims(sub, typ, jti, t) ==
    [typ |-> typ, sub |-> sub, jti |-> jti, iat |-> t,
     exp |-> t + (IF typ = "access" THEN ACCESS_TOKEN_EXPIRE_MINUTES * 60
                                    ELSE REFRESH_TOKEN_EXPIRE_DAYS * 86400),
     sig |-> "ok"]
Forged == [typ |-> "access", sub |-> "a@x", jti |-> 0, iat |-> 0, exp |-> 0, sig |-> "bad"]
FreshJti(n) == Cardinality(issued) + n

\* auth_service.decode_token (AUTH_MODE local): jwt.decode verifies the
\* signature and the exp claim
decode_token(tok, t) == tok.sig = "ok" /\ t < tok.exp

\* Redis: a key with an expiry is gone once the expiry has passed
KeyLive(k, t) == k.exp = None \/ t < k.exp[1]
NoEntry       == [count |-> 0, exp |-> None]
LiveCount(e, t) == IF KeyLive(e, t) THEN e.count ELSE 0
Members(b, t)   == IF KeyLive(b, t) THEN b.members ELSE {}

\* redis.sismember("jwt:blacklist", jti)
Blacklisted(jti, t) == jti \in Members(blacklist, t)

\* ratelimit: INCR then EXPIRE in one pipeline; the request is refused when
\* the new count exceeds the limit
RateLimitedAtLimit(count) == count >= limit
RateLimited(count) == count > limit
RlKey(host, email) == <<host, email>>
RlIncr(r, key, t)  ==
    [r EXCEPT ![key] = [count |-> LiveCount(r[key], t) + 1, exp |-> Some(t + window)]]

AResp(op, code, sub, jti, pw_ok) ==
    [op |-> op, code |-> code, sub |-> sub, jti |-> jti, pw_ok |-> pw_ok]

\* UserRepo.store_refresh_jti / revoke_refresh_jti / refresh_exists
store_refresh_jti(tbl, jti, user_id) == tbl \cup {[jti |-> jti, user_id |-> user_id]}
KeepRefreshJti(tbl, jti)   == tbl
revoke_refresh_jti(tbl, jti) == {r \in tbl : r.jti # jti}
refresh_exists(tbl, jti)   == \E r \in tbl : r.jti = jti

\* POST /auth/register
Register(email) ==
    /\ IF email \in users
         THEN /\ aresp' = AResp("register", 400, email, 0, FALSE)
              /\ UNCHANGED users
         ELSE /\ users' = users \cup {email}
              /\ aresp' = AResp("register", 201, email, 0, FALSE)
    /\ UNCHANGED <<now, refresh_tbl, blacklist, rl, issued, jobVars, profVars, fnVars, svcVars>>

\* POST /auth/login; pw_ok: the password verifies against the stored hash
Login(host, email, pw_ok) ==
    LET key   == RlKey(host, email)
        count == LiveCount(rl[key], now) + 1
        acc   == _claims(email, "access", FreshJti(1), now)
        ref   == _claims(email, "refresh", FreshJti(2), now)
    IN  /\ count <= MaxAttempts
        /\ (email \in users /\ pw_ok /\ ~RateLimited(count))
              => Cardinality(issued) < 2 * MaxPairs
        /\ rl' = RlIncr(rl, key, now)
        /\ IF RateLimited(count)
             THEN /\ aresp' = AResp("login", 429, email, 0, pw_ok)
                  /\ UNCHANGED <<refresh_tbl, issued>>
           ELSE IF email \notin users \/ ~pw_ok
             THEN /\ aresp' = AResp("login", 401, email, 0, pw_ok)
                  /\ UNCHANGED <<refresh_tbl, issued>>
           ELSE /\ issued' = issued \cup {acc, ref}
                /\ refresh_tbl' = store_refresh_jti(refresh_tbl, ref.jti, email)
                /\ aresp' = AResp("login", 200, email, ref.jti, pw_ok)
        /\ UNCHANGED <<now, users, blacklist, jobVars, profVars, fnVars, svcVars>>

\* POST /auth/refresh
Refresh(tok) ==
    /\ (decode_token(tok, now) /\ tok.typ = "refresh" /\ refresh_exists(refresh_tbl, tok.jti))
          => Cardinality(issued) < 2 * MaxPairs
    /\ IF ~decode_token(tok, now) \/ tok.typ # "refresh"
            \/ ~refresh_exists(refresh_tbl, tok.jti)
         THEN /\ aresp' = AResp("refresh", 401, tok.sub, tok.jti, FALSE)
              /\ UNCHANGED <<refresh_tbl, issued>>
         ELSE LET acc == _claims(tok.sub, "access", FreshJti(1), now)
                  ref == _claims(tok.sub, "refresh", FreshJti(2), now)
              IN  /\ refresh_tbl' = store_refresh_jti(
                                       revoke_refresh_jti(refresh_tbl, tok.jti),
                                       ref.jti, tok.sub)
                  /\ issued' = issued \cup {acc, ref}
                  /\ aresp' = AResp("refresh", 200, tok.sub, tok.jti, FALSE)
    /\ UNCHANGED <<now, users, blacklist, rl, jobVars, profVars, fnVars, svcVars>>

\* POST /auth/logout; ref is None when no refresh token is sent along
Logout(acc, ref) ==
    /\ blacklist' =
         IF decode_token(acc, now)
           THEN [members |-> Members(blacklist, now) \cup {acc.jti},
                 exp     |-> Some(now + (acc.exp - acc.iat))]
           ELSE blacklist
    /\ refresh_tbl' =
         IF ref # None /\ decode_token(ref[1], now) /\ ref[1].typ = "refresh"
           THEN revoke_refresh_jti(refresh_tbl, ref[1].jti)
           ELSE refresh_tbl
    /\ aresp' = AResp("logout", 204, acc.sub, acc.jti, FALSE)
    /\ UNCHANGED <<now, users, rl, issued, jobVars, profVars, fnVars, svcVars>>

\* get_current_user, the dependency of GET /auth/me and of /me/preferences
AuthCode(tok) ==
    IF ~decode_token(tok, now) THEN 401
    ELSE IF tok.typ # "access" THEN 401
    ELSE IF Blacklisted(tok.jti, now) THEN 401
    ELSE IF tok.sub \notin users THEN 401
    ELSE 200
get_current_user(ep, tok) ==
    /\ aresp' = AResp(ep, AuthCode(tok), tok.sub, tok.jti, FALSE)
    /\ UNCHANGED <<now, users, refresh_tbl, blacklist, rl, issued, jobVars, profVars, fnVars, svcVars>>

\* redactions._decode_user_from_token: jwt.decode with only "sub" required
\* (the same secret is configured for both routers)
_decode_user_from_token(tok, t) == tok.sig = "ok" /\ t < tok.exp /\ tok.sub # ""
\* redactions.resolve_user, the dependency of GET /redactions/download/{video_id}
resolve_user(tok) ==
    /\ aresp' = AResp("download", IF _decode_user_from_token(tok, now) THEN 200 ELSE 401,
                      tok.sub, tok.jti, FALSE)
    /\ UNCHANGED <<now, users, refresh_tbl, blacklist, rl, issued, jobVars, profVars, fnVars, svcVars>>

\* time passes; Redis drops the keys whose expiry has been reached
Advance(d, until) ==
    /\ now + d <= until
    /\ now' = now + d
    /\ rl' = [k \in DOMAIN rl |-> IF KeyLive(rl[k], now + d) THEN rl[k] ELSE NoEntry]
    /\ blacklist' = IF KeyLive(blacklist, now + d) THEN blacklist
                                                   ELSE [members |-> {}, exp |-> None]
    /\ UNCHANGED <<users, refresh_tbl, issued, aresp, jobVars, profVars, fnVars, svcVars>>

InitAuth ==
    /\ now = 0
    /\ users = {}
    /\ refresh_tbl = {}
    /\ blacklist = [members |-> {}, exp |-> None]
    /\ rl = [k \in Hosts \X Emails |-> NoEntry]
    /\ issued = {}
    /\ aresp = AResp("none", 0, "", 0, FALSE)

----------------------------------------------------------------------------
(* Preference profiles: the repository behind /me/preferences and the two  *)
(* places that resolve the profile a redaction is rendered with.           *)
UserIds      == {"u1", "u2"}
ProfileNames == {"default", "kids"}
ProfileIds   == 1..Len(profiles)
ReqProfileIds == 1..MaxProfiles

\* the profile_id argument: absent, "active"/"default", a UUID, or another string
NoArg        == [kind |-> "none",   id |-> 0, name |-> ""]
ActiveArg    == [kind |-> "active", id |-> 0, name |-> "active"]
UuidArg(i)   == [kind |-> "uuid",   id |-> i, name |-> ""]
NameArg(n)   == [kind |-> "name",   id |-> 0, name |-> n]
ProfileArgs  == {NoArg, ActiveArg} \cup {UuidArg(i) : i \in ReqProfileIds}
                   \cup {NameArg(n) : n \in {"kids"}}

PResp(op, caller, pid, code) == [op |-> op, caller |-> caller, pid |-> pid, code |-> code]

\* updated_at: server-side NOW(), never before an earlier value
LastUpdated == IF profiles = <<>> THEN 0
               ELSE Max({profiles[i].updated_at : i \in ProfileIds})
UpdatedNow  == {t \in {LastUpdated, LastUpdated + 1} : t >= 1 /\ t <= MaxStamp}

OwnedBy(ps, u) == {i \in 1..Len(ps) : ps[i].user_id = u}
\* ... WHERE user_id = :u ORDER BY updated_at DESC LIMIT 1 (0: no row)
LatestOf(ps, u) ==
    IF OwnedBy(ps, u) = {} THEN {0}
    ELSE {i \in OwnedBy(ps, u) : \A k \in OwnedBy(ps, u) : ps[k].updated_at <= ps[i].updated_at}
OrNone(S) == IF S = {} THEN {0} ELSE S

\* redaction_stream._get_profile: the rows the query may return
_get_profile(ps, current_user_id, a) ==
    IF a.kind \in {"none", "active"} THEN LatestOf(ps, current_user_id)
    ELSE IF a.kind = "uuid"
      THEN OrNone({i \in OwnedBy(ps, current_user_id) : i = a.id})
    ELSE OrNone({i \in OwnedBy(ps, current_user_id) : ps[i].name = a.name})

\* redaction_service.render_or_get, step 1: db.get(PreferenceProfile, profile_id)
\* when a profile id is given, else the caller's latest profile
render_or_get(ps, user_id, a) ==
    IF a.kind # "none"
      THEN OrNone({i \in 1..Len(ps) : a.kind = "uuid" /\ i = a.id})
      ELSE LatestOf(ps, user_id)

\* preference_repo.get_profile: WHERE user_id = :uid AND id = :pid
get_profile(ps, user_id, pid) == OrNone({i \in OwnedBy(ps, user_id) : i = pid})

\* POST /me/preferences
CreateProfile(u, name) ==
    /\ Len(profiles) < MaxProfiles
    /\ IF \E i \in OwnedBy(profiles, u) : profiles[i].name = name
         THEN /\ presp' = PResp("create", u, 0, 409)
              /\ UNCHANGED profiles
         ELSE \E t \in UpdatedNow :
                /\ profiles' = Append(profiles,
                                      [user_id |-> u, name |-> name, updated_at |-> t])
                /\ presp' = PResp("create", u, Len(profiles) + 1, 201)
    /\ UNCHANGED <<jobVars, authVars, fnVars, svcVars>>

\* PUT /me/preferences/{profile_id}: preference_repo.update_profile
UpdateProfile(u, pid, name) ==
    /\ \E r \in get_profile(profiles, u, pid) :
          IF r = 0
            THEN /\ presp' = PResp("update", u, 0, 404)
                 /\ UNCHANGED profiles
            ELSE \E t \in UpdatedNow :
                   /\ profiles' = [profiles EXCEPT ![r].name = name, ![r].updated_at = t]
                   /\ presp' = PResp("update", u, r, 200)
    /\ UNCHANGED <<jobVars, authVars, fnVars, svcVars>>

\* GET /me/preferences/{profile_id}/effective
EffectiveModes(u, pid) ==
    /\ \E r \in get_profile(profiles, u, pid) :
          presp' = PResp("effective", u, r, IF r = 0 THEN 404 ELSE 200)
    /\ UNCHANGED <<profiles, jobVars, authVars, fnVars, svcVars>>

\* GET /redactions/download/{video_id}, step 1: the profile it renders with
DownloadProfile(u, a) ==
    /\ \E r \in _get_profile(profiles, u, a) :
          presp' = PResp("download", u, r, IF r = 0 THEN 404 ELSE 200)
    /\ UNCHANGED <<profiles, jobVars, authVars, fnVars, svcVars>>

\* render_or_get, step 1: the profile the plan is computed from
RenderOrGet(u, a) ==
    /\ \E r \in render_or_get(profiles, u, a) :
          presp' = PResp("render", u, r, IF r = 0 THEN 500 ELSE 200)
    /\ UNCHANGED <<profiles, jobVars, authVars, fnVars, svcVars>>

InitProfiles ==
    /\ profiles = <<>>
    /\ presp = PResp("none", "", 0, 0)

----------------------------------------------------------------------------
(* Redactions Router: nothing stored, rendered or answered yet.            *)
\* concurrent requests calling render_or_get, each on its own database session
Callers == {"c1", "c2"}
Idle == [pc |-> "idle"]
RResp(c, outcome, h) == [caller |-> c, outcome |-> outcome, profile_hash |-> h]
DResp(code, v, j, pid, presigned, o) ==
    [code |-> code, video_id |-> v, job |-> j, profile |-> pid,
     presigned |-> presigned, object |-> o]
\* TemporalStabilizer.__init__: no tracks, next_tid = 1
InitStabilizer ==
    /\ st_tracks = <<>>
    /\ st_next_tid = 1
    /\ st_t = 0
    /\ st_out = <<>>
    /\ st_assigned = <<>>
    /\ st_updates = 0
\* no refresh request in flight
InitRefreshCalls ==
    /\ rf = [c \in Callers |-> Idle]
    /\ rf_log = {}
\* no job has been handed to a background task
InitBackground == bg = [j \in 1..MaxJobs |-> "none"]
\* buffer: List = [] and no row stored
InitBuffer ==
    /\ ob_items = <<>>
    /\ ob_rows = <<>>
InitRedactions ==
    /\ InitStabilizer
    /\ InitRefreshCalls
    /\ InitBackground
    /\ InitBuffer
    /\ objects = {}
    /\ renders = 0
    /\ clock = 0
    /\ rendered = {}
    /\ dresp = DResp(0, EmptyKey, 0, 0, FALSE, None)
    /\ plans = {}
    /\ outputs = {}
    /\ derived = <<>>
    /\ rog = [c \in Callers |-> Idle]
    /\ rresp = RResp("", "none", None)
\* an orchestrator run about to notify the start, with n frames to sample
InitOrchestrator(n) ==
    /\ o_pc = "start"
    /\ o_calls = <<>>
    /\ o_buffer = 0
    /\ o_frames = n
    /\ o_err = FALSE
InitSvc == InitRedactions /\ InitOrchestrator(0)

----------------------------------------------------------------------------
(* Initial states: the tables as created, holding the given VideoAsset    *)
(* rows. A storage key is an absolute or a relative local path, an         *)
(* object-storage URL, a path whose file is gone, or empty; the local      *)
(* files named by keys exist.                                              *)
LocalSamples == {AbsKey, RelKey}

InitDbFs(keys) ==
    /\ videos = keys
    /\ jobs = <<>>
    /\ dets = <<>>
    /\ files = keys \cap LocalSamples
    /\ logs = {}
    /\ w_pc = "poll"
    /\ w_job = 0
    /\ resp = Reply(0, 0)
InitStore(keys) == InitDbFs(keys) /\ InitAuth /\ InitSvc
InitTables(keys) == InitStore(keys) /\ InitProfiles

InitDb(keys) ==
    /\ InitTables(keys)
    /\ arg = None
    /\ res = None

----------------------------------------------------------------------------
(* SpecWorker: jobs are created and finished by requests while the        *)
(* Background Worker polls.                                                *)
InitWorker == \E k \in SampleKeys : InitDb({k})

NextWorker ==
    \/ \E v \in videos \cup {UnknownKey} : CreateJob(v)
    \/ \E j \in ReqJobIds, q \in QueryStatus : JobFinish(j, q, "none")
    \/ WorkerPick
    \/ WorkerPollEmpty
    \/ \E d, io \in BOOLEAN, a \in AnalyzerRuns : WorkerProcess(d, io, a[1], a[2])

SpecWorker == InitWorker /\ [][NextWorker]_vars

----------------------------------------------------------------------------
(* SpecJobs: every request of the Analyses Router, the orchestrator's      *)
(* notifications and the Background Worker, interleaved.                   *)
SmallBodies == {<<>>, <<Det(0, "alcohol", 50, "")>>, <<Det(0, "Clown", 50, "")>>}

InitJobs == \E k \in SampleKeys : InitDb({k})

NextJobs ==
    \/ \E v \in videos \cup {UnknownKey} : CreateJob(v)
    \/ \E j \in ReqJobIds : JobStart(j)
    \/ \E j \in ReqJobIds, b \in SmallBodies : Ingest(j, b)
    \/ \E j \in ReqJobIds, q \in QueryStatus : JobFinish(j, q, "none")
    \/ \E j \in ReqJobIds : OrchStart(j)
    \/ \E j \in ReqJobIds, st \in {"done", "failed"} : OrchFinish(j, st)
    \/ \E j \in ReqJobIds : ForceDummy(j)
    \/ WorkerPick
    \/ WorkerPollEmpty
    \/ \E d, io \in BOOLEAN, a \in AnalyzerRuns : WorkerProcess(d, io, a[1], a[2])

SpecJobs == InitJobs /\ [][NextJobs]_vars

----------------------------------------------------------------------------
(* SpecIngest: both ingestion paths against one database.                  *)
dA        == Det(1, "alcohol", 50, "")
dP        == Det(2, "phobic", 100, "Clown")
dBadLabel == Det(1, "Clown", 50, "")
dNeg      == Det(-1, "blood", 50, "")
dBig      == Det(1, "blood", 101, "")
Bodies    == {<<>>, <<dA>>, <<dA, dP>>, <<dBadLabel>>, <<dA, dBadLabel>>,
              <<dNeg>>, <<dA, dBig>>}

oClown  == Obj(Some(10), "Clown", Some(90), None, "")
oSpider == Obj(Some(25), "phobic/spider", None, Some(40), "")
oNudity == Obj(Some(-5), "nudity", Some(100), None, "")
oGun    == Obj(Some(10), "gun", Some(50), None, "")
oNoTs   == Obj(None, "alcohol", Some(50), None, "")
oZero   == Obj(Some(10), "alcohol", Some(0), None, "")
oHigh   == Obj(Some(10), "Blood", Some(150), None, "")
oNegTs  == Obj(Some(-20), "violence", Some(50), None, "")
JsonlFiles == {<<>>, <<oClown>>, <<oSpider, oNudity>>, <<oGun, oClown>>, <<oNoTs>>,
               <<oClown, oZero>>, <<oHigh>>, <<oNudity, oNegTs>>}

InitIngest == InitDb({MinioKey})

NextIngest ==
    \/ \E v \in videos \cup {UnknownKey} : CreateJob(v)
    \/ \E j \in ReqJobIds, b \in Bodies : Ingest(j, b)
    \/ \E f \in JsonlFiles, ok \in BOOLEAN : UploadVideo(f, ok)

SpecIngest == InitIngest /\ [][NextIngest]_vars

----------------------------------------------------------------------------
(* SpecAuth: registration, login, refresh, logout and the two bearer       *)
(* dependencies, with the clock moving in half hours.                   *)
InitAuthOnly == InitDb({})

Presented == issued \cup {Forged}
RefreshTokens == {t \in issued : t.typ = "refresh"}
AccessTokens  == {t \in issued : t.typ = "access"}

NextAuth ==
    \/ \E e \in Emails : Register(e)
    \/ \E h \in Hosts, e \in users : Login(h, e, TRUE)
    \/ \E t \in Presented : Refresh(t)
    \/ \E t \in Presented, r \in {None} \cup {Some(x) : x \in RefreshTokens} : Logout(t, r)
    \/ \E ep \in {"me", "preferences"}, t \in Presented : get_current_user(ep, t)
    \/ \E t \in Presented : resolve_user(t)
    \/ Advance(1800, MaxNowAuth)

SpecAuth == InitAuthOnly /\ [][NextAuth]_vars

----------------------------------------------------------------------------
(* SpecRefresh: the life of refresh tokens -- login, refresh and logout    *)
(* requests of registered users.                                           *)
NextRefresh ==
    \/ \E e \in Emails : Register(e)
    \/ \E h \in Hosts, e \in users : Login(h, e, TRUE)
    \/ \E t \in Presented : Refresh(t)
    \/ \E t \in AccessTokens, r \in {None} \cup {Some(x) : x \in RefreshTokens} : Logout(t, r)
    \/ Advance(1800, MaxNowAuth)

SpecRefresh == InitAuthOnly /\ [][NextRefresh]_vars

----------------------------------------------------------------------------
(* SpecLogin: login attempts against the rate limiter, with the clock      *)
(* moving in steps shorter than the window.                                *)
NextLogin ==
    \/ \E e \in Emails : Register(e)
    \/ \E h \in Hosts, e \in Emails, ok \in BOOLEAN : Login(h, e, ok)
    \/ Advance(30, MaxNowLogin)

SpecLogin == InitAuthOnly /\ [][NextLogin]_vars

----------------------------------------------------------------------------
(* SpecProfiles: profiles of two users, and every operation that resolves  *)
(* a profile for a caller.                                                 *)
NextProfiles ==
    \/ \E u \in UserIds, n \in ProfileNames : CreateProfile(u, n)
    \/ \E u \in UserIds, i \in ReqProfileIds, n \in ProfileNames : UpdateProfile(u, i, n)
    \/ \E u \in UserIds, i \in ReqProfileIds : EffectiveModes(u, i)
    \/ \E u \in UserIds, a \in ProfileArgs : DownloadProfile(u, a)
    \/ \E u \in UserIds, a \in ProfileArgs : RenderOrGet(u, a)

SpecProfiles == InitAuthOnly /\ [][NextProfiles]_vars

----------------------------------------------------------------------------
(* preference_repo.compute_effective_modes. A row carries the global mode  *)
(* ("" when the column is empty) and the two JSON maps, each a function on *)
(* the categories it mentions.                                             *)
PrefCats  == {"alcohol", "blood"}
PrefModes == {"blur", "skip"}
PartialMaps(K, V) == UNION {[S -> V] : S \in SUBSET K}

compute_effective_modes(row) ==
    LET allow_map   == row.allow_map
        mode_map    == row.mode_map
        global_mode == IF row.mode = "" THEN "blur" ELSE row.mode
        cats        == DOMAIN allow_map \cup DOMAIN mode_map
    IN  [cat \in cats |->
            LET allow == IF cat \in DOMAIN allow_map THEN allow_map[cat] ELSE TRUE
            IN  IF allow = TRUE THEN "none"
                ELSE IF cat \in DOMAIN mode_map THEN mode_map[cat] ELSE global_mode]

EffectiveRows ==
    [mode : PrefModes \cup {""},
     allow_map : PartialMaps(PrefCats, BOOLEAN),
     mode_map : PartialMaps(PrefCats, PrefModes)]

\* one call of compute_effective_modes
ComputeEffective ==
    /\ res = None
    /\ res' = Some(compute_effective_modes(arg))
    /\ UNCHANGED <<arg, jobVars, authVars, profVars, svcVars>>

InitEffective == InitTables({}) /\ arg \in EffectiveRows /\ res = None
NextEffective == ComputeEffective
SpecEffective == InitEffective /\ [][NextEffective]_vars

----------------------------------------------------------------------------
(* redaction_stream._labels_from_mode_map: the renderer labels a profile's *)
(* mode_map routes to blur, to red and to skip. Lists made unique and      *)
(* sorted are sets here.                                                   *)
CATEGORY_LABELS ==
    [k \in {"alcohol", "blood", "violence", "phobic", "obscene", "nudity"} |->
        CASE k = "phobic" -> {"Clown", "Spider", "Snake"}
          [] k \in {"obscene", "nudity"} -> {"nudenet"}
          [] OTHER -> {k}]

\* _canon_phobic_name: None, or Some(canonical sub-label)
_canon_phobic_name(s) ==
    LET l == Lower(s)
        k == IF HasPhobicPrefix(l) THEN AfterSlash(l) ELSE l
    IN  IF s # "" /\ k \in DOMAIN _PHOBIC_CANON THEN Some(_PHOBIC_CANON[k]) ELSE None

_canon_from_label_or_extra(label, raw) ==
    IF \E k \in DOMAIN _PHOBIC_CANON : _PHOBIC_CANON[k] = label THEN Some(label)
    ELSE IF _canon_phobic_name(label) # None THEN _canon_phobic_name(label)
    ELSE _canon_phobic_name(raw)

\* the canonical sub-labels among the detections of the job
_discover_phobic_sublabels(ds, job_id) ==
    {c \in {"Clown", "Spider", "Snake"} :
        \E i \in 1..Len(ds) :
            /\ ds[i].job_id = job_id
            /\ _canon_from_label_or_extra(ds[i].label, ds[i].raw_label) = Some(c)}

\* add_labels: the labels one key stands for (every "phobic/" key the model
\* feeds in names a known sub-label)
LabelsOfKey(ds, job_id, key) ==
    LET k == Lower(key) IN
    IF HasPhobicPrefix(k)
      THEN {_PHOBIC_CANON[AfterSlash(k)]}
    ELSE IF k \in {"nudity", "obscene"} THEN CATEGORY_LABELS["nudity"]
    ELSE IF k = "phobic"
      THEN IF _discover_phobic_sublabels(ds, job_id) # {}
             THEN _discover_phobic_sublabels(ds, job_id)
             ELSE CATEGORY_LABELS["phobic"]
    ELSE IF k \in DOMAIN _PHOBIC_CANON THEN {_PHOBIC_CANON[k]}
    ELSE IF k \in DOMAIN CATEGORY_LABELS THEN CATEGORY_LABELS[k]
    ELSE {key}

_labels_from_mode_map(ds, job_id, mode_map) ==
    LET routed(m) == UNION {LabelsOfKey(ds, job_id, k) : k \in {x \in DOMAIN mode_map : mode_map[x] = m}}
    IN  [blur |-> routed("blur"), red |-> routed("red"), skip |-> routed("skip")]

ModeMapKeys == {"phobic", "phobic/clown", "Clown", "nudity", "alcohol"}
ModeMapModes == {"blur", "red", "skip", "none"}
StoredSamples ==
    {<<>>,
     <<[job_id |-> 1, ts_ms |-> 1, label |-> "phobic", score |-> 90, raw_label |-> "Clown"]>>,
     <<[job_id |-> 1, ts_ms |-> 1, label |-> "phobic", score |-> 90, raw_label |-> "Spider"],
       [job_id |-> 1, ts_ms |-> 2, label |-> "alcohol", score |-> 50, raw_label |-> ""]>>}

\* one call of _labels_from_mode_map for job 1
LabelsFromModeMap ==
    /\ res = None
    /\ res' = Some(_labels_from_mode_map(arg.dets, 1, arg.mode_map))
    /\ UNCHANGED <<arg, jobVars, authVars, profVars, svcVars>>

InitLabels ==
    /\ InitTables({})
    /\ arg \in [dets : StoredSamples, mode_map : PartialMaps(ModeMapKeys, ModeMapModes)]
    /\ res = None
NextLabels == LabelsFromModeMap
SpecLabels == InitLabels /\ [][NextLabels]_vars

----------------------------------------------------------------------------
(* ai/inference/pipeline_redact.py: multi-instance segmentation.           *)
(* A bounding box is <<cx, cy, w, h>> in twentieths of the frame; the       *)
(* sample boxes share cy, w and h. Quotients are compared by cross         *)
(* multiplication; the 1e-9 added to the union is below that resolution.   *)
MaxTs     == 3
MaxEvents == 2
HoldGaps  == {0, 1, 2}
Graces    == {0, 2}
BoxA      == <<4, 10, 4, 4>>
BoxB      == <<6, 10, 4, 4>>
BoxFar    == <<16, 10, 4, 4>>
SegLabels == {"alcohol", "blood"}
Abs(x)    == IF x < 0 THEN 0 - x ELSE x

\* to_xyxy, doubled so that w / 2 stays whole
to_xyxy(b) == <<2 * b[1] - b[3], 2 * b[2] - b[4], 2 * b[1] + b[3], 2 * b[2] + b[4]>>
\* bbox_iou as the fraction <<inter, union>>
bbox_iou(b1, b2) ==
    LET a == to_xyxy(b1)  c == to_xyxy(b2)
        iw == Max({0, Min({a[3], c[3]}) - Max({a[1], c[1]})})
        ih == Max({0, Min({a[4], c[4]}) - Max({a[2], c[2]})})
        inter == iw * ih
    IN  <<inter, (a[3] - a[1]) * (a[4] - a[2]) + (c[3] - c[1]) * (c[4] - c[2]) - inter>>
\* centre distance in twentieths (the sample boxes lie on one horizontal line)
center_dist(b1, b2) == Abs(b1[1] - b2[1])
\* 0.1 and 0.25 in twentieths
iou_thr         == 2
max_center_dist == 5

\* str ordering of the labels the model feeds in (sort key of the segments)
LabelOrder == <<"Clown", "Snake", "Spider", "alcohol", "blood", "nudenet", "phobic", "violence">>
LabelRank(l) == CHOOSE i \in 1..Len(LabelOrder) : LabelOrder[i] = l

Ev(ts, label, bbox, score) == [ts_ms |-> ts, label |-> label, bbox |-> bbox, score |-> score]
LastKey(seg) == seg.keys[Len(seg.keys)]

\* the inner loop over active: the first segment of the best score, or 0
\* iou < iou_thr and dist > max_center_dist: no match
IouBelow(iou) == 20 * iou[1] < iou_thr * iou[2]
TooFar(b, last_bbox) ==
    /\ IouBelow(bbox_iou(b, last_bbox))
    /\ center_dist(b, last_bbox) > max_center_dist
\* the same loop with the hold-gap comparison made strict
CandidatesStrict(active, used, e, ts, hold_gap_ms) ==
    {j \in 1..Len(active) :
        /\ j \notin used
        /\ ts - LastKey(active[j])[1] < hold_gap_ms
        /\ ~TooFar(e.bbox, LastKey(active[j])[2])}
\* the inner loop over active without the hold-gap test
CandidatesAnyGap(active, used, e, ts, hold_gap_ms) ==
    {j \in 1..Len(active) :
        /\ j \notin used
        /\ ~TooFar(e.bbox, LastKey(active[j])[2])}
\* the inner loop over active: the segments not skipped by a continue
Candidates(active, used, e, ts, hold_gap_ms) ==
    {j \in 1..Len(active) :
        /\ j \notin used
        /\ ~(ts - LastKey(active[j])[1] > hold_gap_ms)
        /\ ~TooFar(e.bbox, LastKey(active[j])[2])}
\* score = iou - 0.1 * dist, as a fraction over the union
ScoreFracLeq(iou_j, dist_j, iou_k, dist_k) ==
    (200 * iou_j[1] - dist_j * iou_j[2]) * iou_k[2]
      <= (200 * iou_k[1] - dist_k * iou_k[2]) * iou_j[2]
ScoreLeq(b, bj, bk) ==
    ScoreFracLeq(bbox_iou(b, bj), center_dist(b, bj), bbox_iou(b, bk), center_dist(b, bk))
\* best_j: the first segment of the greatest score among the candidates C, or 0
BestOf(C, active, e) ==
    IF C = {} THEN 0
    ELSE CHOOSE j \in C :
            /\ \A k \in C : ScoreLeq(e.bbox, LastKey(active[k])[2], LastKey(active[j])[2])
            /\ \A k \in C : ScoreLeq(e.bbox, LastKey(active[j])[2], LastKey(active[k])[2])
                               => j <= k
BestSeg(active, used, e, ts, hold_gap_ms) ==
    BestOf(Candidates(active, used, e, ts, hold_gap_ms), active, e)

\* first loop over the detections of one timestamp: extend matched segments
RECURSIVE AssignAll(_, _, _, _, _, _, _, _)
\* the end of one pass: detection i extends segment j (0: no segment matched)
AssignTo(j, active, used, assigned, detections, i, ts, hold_gap_ms, grace_ms) ==
    IF j = 0
      THEN AssignAll(active, used, assigned, detections, i + 1, ts, hold_gap_ms, grace_ms)
      ELSE AssignAll([active EXCEPT ![j].keys = Append(@, <<ts, detections[i].bbox,
                                                             detections[i].score>>),
                                    ![j].end_ms = ts + grace_ms],
                     used \cup {j}, assigned \cup {i}, detections, i + 1,
                     ts, hold_gap_ms, grace_ms)
AssignAll(active, used, assigned, detections, i, ts, hold_gap_ms, grace_ms) ==
    IF i > Len(detections) THEN [active |-> active, assigned |-> assigned]
    ELSE AssignTo(BestSeg(active, used, detections[i], ts, hold_gap_ms),
                  active, used, assigned, detections, i, ts, hold_gap_ms, grace_ms)

\* second loop: every unassigned detection opens a segment
RECURSIVE OpenNew(_, _, _, _, _, _, _)
OpenNew(active, next_id, assigned, detections, i, lab, grace_ms) ==
    IF i > Len(detections) THEN [active |-> active, next_id |-> next_id]
    ELSE IF i \in assigned
      THEN OpenNew(active, next_id, assigned, detections, i + 1, lab, grace_ms)
      ELSE OpenNew(Append(active, [id |-> next_id, label |-> lab,
                                   start_ms |-> detections[i].ts_ms,
                                   end_ms |-> detections[i].ts_ms + grace_ms,
                                   keys |-> <<<<detections[i].ts_ms, detections[i].bbox,
                                               detections[i].score>>>>]),
                   next_id + 1, assigned, detections, i + 1, lab, grace_ms)

StillActive(ts, hold_gap_ms, seg) == ts - LastKey(seg)[1] <= hold_gap_ms

RECURSIVE SortedTs(_)
SortedTs(S) ==
    IF S = {} THEN <<>>
    ELSE LET m == CHOOSE x \in S : \A y \in S : x <= y IN <<m>> \o SortedTs(S \ {m})

\* the loop over the sorted timestamps of one label
RECURSIVE LabelLoop(_, _, _, _, _, _, _, _, _)
\* still_active / segs.append of the stale segments, then the next timestamp
CloseStale(a2, segs, tss, k, evs, lab, hold_gap_ms, grace_ms) ==
    LabelLoop(SelectSeq(a2.active, LAMBDA s : StillActive(tss[k], hold_gap_ms, s)),
              segs \o SelectSeq(a2.active, LAMBDA s : ~StillActive(tss[k], hold_gap_ms, s)),
              a2.next_id, tss, k + 1, evs, lab, hold_gap_ms, grace_ms)
OpenRest(a1, next_id, detections, lab, grace_ms) ==
    OpenNew(a1.active, next_id, a1.assigned, detections, 1, lab, grace_ms)
AtTimestamp(detections, active, segs, next_id, tss, k, evs, lab, hold_gap_ms, grace_ms) ==
    CloseStale(OpenRest(AssignAll(active, {}, {}, detections, 1, tss[k],
                                  hold_gap_ms, grace_ms),
                        next_id, detections, lab, grace_ms),
               segs, tss, k, evs, lab, hold_gap_ms, grace_ms)
LabelLoop(active, segs, next_id, tss, k, evs, lab, hold_gap_ms, grace_ms) ==
    IF k > Len(tss)
      THEN [segs |-> segs \o active, next_id |-> next_id]
      ELSE AtTimestamp(SelectSeq(evs, LAMBDA e : e.ts_ms = tss[k]), active, segs, next_id,
                       tss, k, evs, lab, hold_gap_ms, grace_ms)

\* by_label keeps the labels in the order of their first event
RECURSIVE LabelsInOrder(_, _)
LabelsInOrder(events, i) ==
    IF i > Len(events) THEN <<>>
    ELSE IF \E h \in 1..(i - 1) : events[h].label = events[i].label
      THEN LabelsInOrder(events, i + 1)
      ELSE <<events[i].label>> \o LabelsInOrder(events, i + 1)

RECURSIVE AllLabels(_, _, _, _, _, _, _)
NextLabel(r, labs, n, events, hold_gap_ms, grace_ms) ==
    AllLabels(labs, n + 1, r.segs, r.next_id, events, hold_gap_ms, grace_ms)
OfLabel(evs, labs, n, segs, next_id, events, hold_gap_ms, grace_ms) ==
    NextLabel(LabelLoop(<<>>, segs, next_id, SortedTs({evs[i].ts_ms : i \in 1..Len(evs)}),
                        1, evs, labs[n], hold_gap_ms, grace_ms),
              labs, n, events, hold_gap_ms, grace_ms)
AllLabels(labs, n, segs, next_id, events, hold_gap_ms, grace_ms) ==
    IF n > Len(labs) THEN segs
    ELSE OfLabel(SelectSeq(events, LAMBDA e : e.label = labs[n]),
                 labs, n, segs, next_id, events, hold_gap_ms, grace_ms)

\* sort key (start_ms, label, id); the ids of one label differ in their number
SegBefore(a, b) ==
    \/ a.start_ms < b.start_ms
    \/ a.start_ms = b.start_ms /\ LabelRank(a.label) < LabelRank(b.label)
    \/ a.start_ms = b.start_ms /\ a.label = b.label /\ a.id < b.id

build_segments_multi(events, hold_gap_ms, grace_ms) ==
    SortSeq(AllLabels(LabelsInOrder(events, 1), 1, <<>>, 1, events, hold_gap_ms, grace_ms),
            SegBefore)

RECURSIVE SeqsUpTo(_, _)
SeqsUpTo(S, n) ==
    IF n = 0 THEN {<<>>}
    ELSE SeqsUpTo(S, n - 1) \cup {Append(s, x) : s \in {q \in SeqsUpTo(S, n - 1) : Len(q) = n - 1}, x \in S}

\* <<bbox, score>> of the sample detections
BoxScores == {<<BoxA, 90>>, <<BoxB, 50>>, <<BoxFar, 90>>}
SegEvents == {Ev(ts, l, bs[1], bs[2]) : ts \in 0..MaxTs, l \in SegLabels, bs \in BoxScores}

BuildSegments ==
    /\ res = None
    /\ res' = Some(build_segments_multi(arg.events, arg.hold_gap_ms, arg.grace_ms))
    /\ UNCHANGED <<arg, jobVars, authVars, profVars, svcVars>>

InitSegments ==
    /\ InitTables({})
    /\ arg \in [events : SeqsUpTo(SegEvents, MaxEvents), hold_gap_ms : HoldGaps, grace_ms : Graces]
    /\ res = None
NextSegments == BuildSegments
SpecSegments == InitSegments /\ [][NextSegments]_vars

----------------------------------------------------------------------------
(* pipeline_redact.bbox_at_time. An interpolated float is the fraction     *)
(* <<numerator, denominator>>; float rounding is not modelled.             *)
Frac(n, d) == <<n, d>>
\* lerp(a, b, alpha) with alpha = an / d
lerp(a, b, an, d) == Frac(a * d + (b - a) * an, d)

interp_bbox(t, t0, b0, t1, b1) ==
    IF t1 = t0 THEN [i \in 1..4 |-> Frac(b0[i], 1)]
    ELSE LET an == Max({0, Min({t1 - t0, t - t0})})
         IN  [i \in 1..4 |-> lerp(b0[i], b1[i], an, t1 - t0)]

\* the part of bbox_at_time after its range check
KeyAt(seg, t_ms) ==
    LET keys == seg.keys
        I == {i \in 1..(Len(keys) - 1) : t_ms <= keys[i + 1][1]}
    IN  IF Len(keys) = 1 THEN [box |-> [i \in 1..4 |-> Frac(keys[1][2][i], 1)],
                               score |-> Frac(keys[1][3], 1)]
        ELSE IF I # {}
          THEN LET i == Min(I)
                   t0 == keys[i][1]      t1 == keys[i + 1][1]
               IN  [box |-> interp_bbox(t_ms, t0, keys[i][2], t1, keys[i + 1][2]),
                    score |-> IF t1 = t0 THEN Frac(keys[i][3], 1)
                              ELSE lerp(keys[i][3], keys[i + 1][3], t_ms - t0, Max({1, t1 - t0}))]
          ELSE [box |-> [i \in 1..4 |-> Frac(LastKey(seg)[2][i], 1)],
                score |-> Frac(LastKey(seg)[3], 1)]

\* the same function without the check against start_ms and end_ms
bbox_at_time_unchecked(seg, t_ms) ==
    IF Len(seg.keys) = 0 THEN None ELSE Some(KeyAt(seg, t_ms))
bbox_at_time(seg, t_ms) ==
    IF Len(seg.keys) = 0 THEN None
    ELSE IF t_ms < seg.start_ms \/ t_ms > seg.end_ms THEN None
    ELSE Some(KeyAt(seg, t_ms))

\* the segments build_segments_multi returns for the sample events of one label
SegInputs == [events : SeqsUpTo({e \in SegEvents : e.label = "alcohol"}, MaxEvents),
              hold_gap_ms : HoldGaps, grace_ms : Graces]
SegsOf(a) == build_segments_multi(a.events, a.hold_gap_ms, a.grace_ms)
SegsIn(segs) == {segs[i] : i \in 1..Len(segs)}
\* the renderer builds the segments, then asks for the box of one of them at
\* the time of a frame
PickSegment ==
    /\ "events" \in DOMAIN arg
    /\ \E seg \in SegsIn(SegsOf(arg)), t \in 0..(MaxTs + 3) :
           arg' = [seg |-> seg, t_ms |-> t]
    /\ UNCHANGED <<res, jobVars, authVars, profVars, svcVars>>

BboxAtTime ==
    /\ "seg" \in DOMAIN arg
    /\ res = None
    /\ res' = Some(bbox_at_time(arg.seg, arg.t_ms))
    /\ UNCHANGED <<arg, jobVars, authVars, profVars, svcVars>>

InitBbox ==
    /\ InitTables({})
    /\ arg \in SegInputs
    /\ res = None
NextBbox == PickSegment \/ BboxAtTime
SpecBbox == InitBbox /\ [][NextBbox]_vars

----------------------------------------------------------------------------
(* redaction_stream._invert_to_keep: the complement of the skip intervals. *)
(* An Interval is <<start_ms, end_ms>>.                                    *)
MaxDur   == 5
MaxSkips == 2

\* the for loop: <<out, cur>> after the skips from i on
RECURSIVE KeepLoop(_, _, _, _)
KeepLoop(skips, i, cur, out) ==
    IF i > Len(skips) THEN <<out, cur>>
    ELSE KeepLoop(skips, i + 1, Max({cur, skips[i][2]}),
                  IF skips[i][1] > cur THEN Append(out, <<cur, skips[i][1]>>) ELSE out)

\* the same function without the interval after the last skip
_invert_to_keep_no_tail(total_ms, skips) ==
    IF total_ms <= 0 THEN <<>>
    ELSE IF skips = <<>> THEN <<<<0, total_ms>>>>
    ELSE SelectSeq(KeepLoop(skips, 1, 0, <<>>)[1], LAMBDA iv : iv[2] > iv[1])
_invert_to_keep(total_ms, skips) ==
    IF total_ms <= 0 THEN <<>>
    ELSE IF skips = <<>> THEN <<<<0, total_ms>>>>
    ELSE LET r == KeepLoop(skips, 1, 0, <<>>)
             out == IF r[2] < total_ms THEN Append(r[1], <<r[2], total_ms>>) ELSE r[1]
         IN  SelectSeq(out, LAMBDA iv : iv[2] > iv[1])

\* what _merge_intervals can return: sorted intervals, each starting after
\* the end of the one before
Intervals == {iv \in (0..(MaxDur + 1)) \X (0..(MaxDur + 1)) : iv[1] <= iv[2]}
Follows(s, iv) == s = <<>> \/ iv[1] > s[Len(s)][2]
RECURSIVE MergedUpTo(_)
MergedUpTo(n) ==
    IF n = 0 THEN {<<>>}
    ELSE LET shorter == MergedUpTo(n - 1) IN
         shorter \cup UNION {{Append(s, iv) : iv \in {v \in Intervals : Follows(s, v)}} :
                                s \in {q \in shorter : Len(q) = n - 1}}
MergedLists == MergedUpTo(MaxSkips)

InvertToKeep ==
    /\ res = None
    /\ res' = Some(_invert_to_keep(arg.total_ms, arg.skips))
    /\ UNCHANGED <<arg, jobVars, authVars, profVars, svcVars>>

InitKeep ==
    /\ InitTables({})
    /\ arg \in [total_ms : 0..MaxDur, skips : MergedLists]
    /\ res = None
NextKeep == InvertToKeep
SpecKeep == InitKeep /\ [][NextKeep]_vars

----------------------------------------------------------------------------
(* Redactions Router (apps/api/routers/redactions.py): GET                 *)
(* /redactions/download/{video_id}. The caller is the user resolve_user    *)
(* returned. A profile row carries its mode_map here.                      *)
MaxRenders == 2

\* services/redaction_stream._latest_done_job; finished_at is not a time in
\* the model, so every done job of the video may be the one ordered first
_latest_done_job(js, v) ==
    OrNone({j \in 1..Len(js) : js[j].video_id = v /\ js[j].status = "done"})

\* getattr(job, "redacted_object", None): AnalysisJob has no such column and
\* no code assigns the attribute
redacted_object(job) == None

\* resolve_source_to_local: a local file that exists, or an object fetched;
\* the temporary copy is unlinked before the handler returns
source_resolves(v, fetch_ok) ==
    (v # EmptyKey /\ PathExists(v, files)) \/ (is_minio_url(v) /\ fetch_ok)

\* utils/minio_utils.upload_redacted_and_presign, uploading: the object name
ObjectName(v, ts) == [video_id |-> v, ts |-> ts]
ClockNow == {t \in {clock, clock + 1} : t <= MaxRenders}

DownloadNow(u, v, a, presigned, fetch_ok, redact_ok, upload_ok) ==
    \E pid \in _get_profile(profiles, u, a), j \in _latest_done_job(jobs, v), t \in ClockNow :
      LET fail(code) == /\ dresp' = DResp(code, v, j, pid, presigned, None)
                        /\ UNCHANGED <<objects, renders, rendered>>
          lab == _labels_from_mode_map(dets, j, profiles[pid].mode_map)
      IN
      /\ clock' = t
      /\ IF v \notin videos THEN fail(404)
         ELSE IF ~source_resolves(v, fetch_ok) THEN fail(502)
         ELSE IF pid = 0 THEN fail(404)
         ELSE IF DOMAIN profiles[pid].mode_map = {} THEN fail(400)
         ELSE IF j = 0 THEN fail(404)
         ELSE IF presigned /\ redacted_object(jobs[j]) # None
           THEN /\ dresp' = DResp(200, v, j, pid, presigned, redacted_object(jobs[j]))
                /\ UNCHANGED <<objects, renders, rendered>>
         ELSE IF lab.blur \cup lab.red \cup lab.skip = {} THEN fail(400)
         ELSE /\ renders < MaxRenders
              /\ renders' = renders + 1
              /\ IF ~redact_ok
                   THEN /\ dresp' = DResp(500, v, j, pid, presigned, None)
                        /\ UNCHANGED <<objects, rendered>>
                 ELSE IF ~presigned
                   THEN /\ dresp' = DResp(200, v, j, pid, presigned, None)
                        /\ UNCHANGED <<objects, rendered>>
                 ELSE IF ~upload_ok
                   THEN /\ dresp' = DResp(502, v, j, pid, presigned, None)
                        /\ UNCHANGED <<objects, rendered>>
                 ELSE /\ objects' = objects \cup {ObjectName(v, t)}
                      /\ rendered' = rendered \cup
                            {[video_id |-> v, job |-> j, profile |-> pid,
                              object |-> Some(ObjectName(v, t))]}
                      /\ dresp' = DResp(200, v, j, pid, presigned, Some(ObjectName(v, t)))
      /\ UNCHANGED <<jobVars, authVars, profVars, fnVars, rogVars, orchVars, stabVars, rfVars, bgVars, bufVars>>

----------------------------------------------------------------------------
(* SpecDownload: jobs of one video are created and finished while users    *)
(* with stored profiles request the redacted download.                     *)
DownloadProfiles ==
    <<[user_id |-> "u1", name |-> "default", updated_at |-> 1,
       mode_map |-> [k \in {"alcohol"} |-> "blur"]],
      [user_id |-> "u2", name |-> "default", updated_at |-> 1,
       mode_map |-> [k \in {"phobic"} |-> "none"]],
      [user_id |-> "u2", name |-> "kids", updated_at |-> 2, mode_map |-> <<>>]>>

\* <<fetch_ok, redact_ok, upload_ok>>: all well, or one step failing
DownloadRuns == {<<TRUE, TRUE, TRUE>>, <<FALSE, TRUE, TRUE>>,
                 <<TRUE, FALSE, TRUE>>, <<TRUE, TRUE, FALSE>>}

InitDownload ==
    /\ \E k \in {AbsKey, MinioKey} : InitStore({k})
    /\ profiles = DownloadProfiles
    /\ presp = PResp("none", "", 0, 0)
    /\ arg = None
    /\ res = None

NextDownload ==
    \/ \E v \in videos : CreateJob(v)
    \/ \E j \in ReqJobIds, q \in {"done", "failed"} : JobFinish(j, q, "none")
    \/ \E u \in UserIds, v \in videos \cup {UnknownKey}, a \in {ActiveArg, NameArg("default")},
          presigned \in BOOLEAN, ok \in DownloadRuns :
          DownloadNow(u, v, a, presigned, ok[1], ok[2], ok[3])

SpecDownload == InitDownload /\ [][NextDownload]_vars

----------------------------------------------------------------------------
(* services/redaction_service.render_or_get: the profile-hash-keyed render *)
(* path. A call reads the database up to the plan lookup, and later        *)
(* commits its plan, renders and records the output; other calls run in    *)
(* between. A profile row carries its preference columns here.             *)
CAT_KEYS == {"alcohol", "blood", "violence", "phobic", "obscene"}
DEFAULT_THRESH == 40

\* getattr(p, "allow_map", None) or ex.get("allow_map", {}) or {}
ColumnOrExtras(col, ex, key) ==
    IF DOMAIN col # {} THEN col
    ELSE IF key \in DOMAIN ex /\ DOMAIN ex[key] # {} THEN ex[key] ELSE <<>>
profile_to_dict(p) ==
    [mode |-> IF p.mode = "" THEN "blur" ELSE p.mode,
     allow_flags |-> p.allow,
     allow_map |-> ColumnOrExtras(p.allow_map, p.extras, "allow_map"),
     mode_map |-> ColumnOrExtras(p.mode_map, p.extras, "mode_map"),
     extras |-> p.extras]
\* sha256 of the canonical JSON of the dict; distinct dicts are taken to hash
\* differently
compute_profile_hash(d) == d

blocked_categories(d) ==
    {ck \in CAT_KEYS :
        (IF ck \in DOMAIN d.allow_map THEN d.allow_map[ck] ELSE d.allow_flags[ck]) = FALSE}
thresholds_from_profile(d) ==
    IF "thresholds" \in DOMAIN d.extras THEN d.extras["thresholds"] ELSE <<>>
ThrOf(thr_map, label) == IF label \in DOMAIN thr_map THEN thr_map[label] ELSE DEFAULT_THRESH

\* the detections of the job in the blocked categories that clear their
\* threshold (ids in ts_ms order are not kept: the markers as a set)
Markers(ds, job, blocked, thr_map) ==
    {[t |-> ds[i].ts_ms, label |-> ds[i].label, score |-> ds[i].score] :
        i \in {k \in 1..Len(ds) : /\ ds[k].job_id = job
                                  /\ ds[k].label \in blocked
                                  /\ ds[k].score >= ThrOf(thr_map, ds[k].label)}}

PlanFor(v, h) == {pl \in plans : pl.video_id = v /\ pl.profile_hash = h}
Raise(c, why, h) == /\ rresp' = RResp(c, why, h)
                    /\ rog' = [rog EXCEPT ![c] = Idle]

\* render_or_get from its start to the plan lookup and, without a plan, the
\* scan of the detections
RogLookup(c, u, v, a) ==
    /\ rog[c].pc = "idle"
    /\ \E pid \in render_or_get(profiles, u, a), j \in _latest_done_job(jobs, v) :
        LET d == profile_to_dict(profiles[pid])
            h == compute_profile_hash(d)
        IN  IF pid = 0
              THEN Raise(c, "no_profile", None) /\ UNCHANGED derived
            ELSE IF blocked_categories(d) = {}
              THEN /\ Raise(c, IF v \in videos THEN "original" ELSE "no_video", Some(h))
                   /\ UNCHANGED derived
            ELSE IF \E o \in outputs : o.video_id = v /\ o.profile_hash = h
              THEN Raise(c, "cached", Some(h)) /\ UNCHANGED derived
            ELSE IF j = 0
              THEN Raise(c, "no_job", Some(h)) /\ UNCHANGED derived
            ELSE IF PlanFor(v, h) # {}
              THEN /\ rog' = [rog EXCEPT ![c] = [pc |-> "found", video_id |-> v,
                                                 profile_hash |-> h]]
                   /\ UNCHANGED <<derived, rresp>>
            ELSE /\ derived' = Append(derived, <<v, h>>)
                 /\ rog' = [rog EXCEPT ![c] =
                        [pc |-> "derived", video_id |-> v, profile_hash |-> h,
                         plan |-> [video_id |-> v, profile_id |-> pid, profile_hash |-> h,
                                   job_id |-> j,
                                   markers |-> Markers(dets, j, blocked_categories(d),
                                                       thresholds_from_profile(d))]]]
                 /\ UNCHANGED rresp
    /\ UNCHANGED <<plans, outputs, objects, renders, clock, rendered, dresp>>
    /\ UNCHANGED <<jobVars, authVars, profVars, fnVars, orchVars, stabVars, rfVars, bgVars, bufVars>>

\* the rest of the call: db.add(plan); db.commit() under uq_plan_video_hash,
\* the renderer, and the outputs row
RogFinish(c, redact_ok) ==
    /\ rog[c].pc \in {"found", "derived"}
    /\ LET v == rog[c].video_id
           h == rog[c].profile_hash
       IN  IF rog[c].pc = "derived" /\ PlanFor(v, h) # {}
             THEN /\ Raise(c, "integrity_error", Some(h))
                  /\ UNCHANGED <<plans, outputs, renders>>
           ELSE /\ plans' = IF rog[c].pc = "derived" THEN plans \cup {rog[c].plan} ELSE plans
                /\ IF v \notin videos
                     THEN Raise(c, "no_video", Some(h)) /\ UNCHANGED <<outputs, renders>>
                   ELSE /\ renders < MaxRenders
                        /\ renders' = renders + 1
                        /\ IF redact_ok
                             THEN /\ outputs' = outputs \cup {[video_id |-> v, profile_hash |-> h]}
                                  /\ Raise(c, "rendered", Some(h))
                             ELSE /\ Raise(c, "redact_failed", Some(h))
                                  /\ UNCHANGED outputs
    /\ UNCHANGED <<derived, objects, clock, rendered, dresp>>
    /\ UNCHANGED <<jobVars, authVars, profVars, fnVars, orchVars, stabVars, rfVars, bgVars, bufVars>>

\* two users whose profiles hold the same preferences, and one who blocks nothing
RenderProfile(u, name, at, allowed) ==
    [user_id |-> u, name |-> name, updated_at |-> at, mode |-> "blur",
     allow |-> [ck \in CAT_KEYS |-> ck \in allowed],
     allow_map |-> <<>>, mode_map |-> <<>>,
     extras |-> [k \in {"thresholds"} |-> [l \in {"alcohol"} |-> 50]]]
RenderProfiles ==
    <<RenderProfile("u1", "default", 1, CAT_KEYS \ {"alcohol"}),
      RenderProfile("u2", "kids", 1, CAT_KEYS \ {"alcohol"}),
      RenderProfile("u2", "default", 2, CAT_KEYS)>>

InitRender ==
    /\ InitStore({AbsKey})
    /\ profiles = RenderProfiles
    /\ presp = PResp("none", "", 0, 0)
    /\ arg = None
    /\ res = None

NextRender ==
    \/ \E v \in videos : CreateJob(v)
    \/ \E j \in ReqJobIds : JobFinish(j, "done", "none")
    \/ Ingest(1, <<dA>>)
    \/ \E c \in Callers, u \in UserIds, v \in videos \cup {UnknownKey},
          a \in {NoArg, UuidArg(2)} : RogLookup(c, u, v, a)
    \/ \E c \in Callers, ok \in BOOLEAN : RogFinish(c, ok)

SpecRender == InitRender /\ [][NextRender]_vars

----------------------------------------------------------------------------
(* ai/inference/derive_dynamic_thresholds.py: band quantization of the     *)
(* derived ON threshold. Thresholds are in thousandths; float rounding is  *)
(* not modelled.                                                           *)
presets_default ==
    [p \in {"blood", "alcohol"} |->
        IF p = "blood"
          THEN [tmin |-> 150, tmax |-> 350, hysteresis |-> 50,
                bands |-> <<250, 230, 200, 160>>, cuts |-> <<240, 215, 180>>]
          ELSE [tmin |-> 350, tmax |-> 550, hysteresis |-> 50,
                bands |-> <<550, 500, 450, 400, 350>>, cuts |-> <<520, 475, 425, 375>>]]

clamp(x, a, b) == Max({a, Min({b, x})})

\* the same function with a strict comparison against the cut
quantize_strict(x, bands, cuts) ==
    IF bands = <<>> THEN x
    ELSE IF cuts = <<>> \/ Len(cuts) # Len(bands) - 1 THEN bands[Len(bands)]
    ELSE IF \E i \in 1..Len(cuts) : x > cuts[i]
      THEN bands[Min({i \in 1..Len(cuts) : x > cuts[i]})]
    ELSE bands[Len(bands)]
quantize(x, bands, cuts) ==
    IF bands = <<>> THEN x
    ELSE IF cuts = <<>> \/ Len(cuts) # Len(bands) - 1 THEN bands[Len(bands)]
    ELSE IF \E i \in 1..Len(cuts) : x >= cuts[i]
      THEN bands[Min({i \in 1..Len(cuts) : x >= cuts[i]})]
    ELSE bands[Len(bands)]

\* run_for_class from on_raw on: "on" and "off" of the emitted record
\* (round(on_q, 3) keeps a value in thousandths)
Quantized(preset, on_raw) ==
    LET on_q == quantize(on_raw, preset.bands, preset.cuts)
    IN  [on |-> on_q, off |-> clamp(on_q + preset.hysteresis, preset.tmin, preset.tmax)]

RunForClass ==
    /\ res = None
    /\ res' = Some(Quantized(presets_default[arg.class], arg.on_raw))
    /\ UNCHANGED <<arg, jobVars, authVars, profVars, svcVars>>

\* on_raw is clamped to [tmin, tmax] of its preset
InitQuantize ==
    /\ InitTables({})
    /\ \E c \in DOMAIN presets_default :
          arg \in [class : {c}, on_raw : presets_default[c].tmin..presets_default[c].tmax]
    /\ res = None
NextQuantize == RunForClass
SpecQuantize == InitQuantize /\ [][NextQuantize]_vars

----------------------------------------------------------------------------
(* Analysis Orchestrator (ai/inference/pipeline_analyze.py, run from its   *)
(* step 4 on, with post_url and job_id given): the start notification, the *)
(* frame loop with its batched ingest calls, and the finish notification.  *)
(* post_json raises when the request fails; ok says whether it returned.   *)
MaxFrames   == 2
MaxPerFrame == 2
batch_size  == 2

Call(kind, status, ok) == [kind |-> kind, status |-> status, ok |-> ok]

\* where the run goes after a call wrapped in try/except Exception: on
\* whether or not the call failed
AbortOnFailure(ok, next) == IF ok THEN next ELSE "except"
AfterCall(ok, next) == next

\* post_json(.../start) inside its own try/except
OrchNotifyStart(ok) ==
    /\ o_pc = "start"
    /\ o_calls' = Append(o_calls, Call("start", "", ok))
    /\ o_pc' = AfterCall(ok, "loop")
    /\ UNCHANGED <<o_buffer, o_frames, o_err>>
    /\ UNCHANGED <<jobVars, authVars, profVars, fnVars, objects, renders, clock, rendered,
                   dresp, rogVars, stabVars, rfVars, bgVars, bufVars>>

\* one iteration of the frame loop: n detections of allowed labels are kept,
\* and the buffer is posted once it holds batch_size of them
OrchFrame(n, ok) ==
    /\ o_pc = "loop"
    /\ o_frames > 0
    /\ o_frames' = o_frames - 1
    /\ IF o_buffer + n >= batch_size
         THEN /\ o_calls' = Append(o_calls, Call("ingest", "", ok))
              /\ o_buffer' = IF ok THEN 0 ELSE o_buffer + n
              /\ o_pc' = AfterCall(ok, "loop")
         ELSE /\ o_buffer' = o_buffer + n
              /\ UNCHANGED <<o_calls, o_pc>>
    /\ UNCHANGED o_err
    /\ UNCHANGED <<jobVars, authVars, profVars, fnVars, objects, renders, clock, rendered,
                   dresp, rogVars, stabVars, rfVars, bgVars, bufVars>>

\* the sampler, a detector or the log write raises inside the try block
OrchError ==
    /\ o_pc = "loop"
    /\ o_pc' = "except"
    /\ o_err' = TRUE
    /\ UNCHANGED <<o_calls, o_buffer, o_frames>>
    /\ UNCHANGED <<jobVars, authVars, profVars, fnVars, objects, renders, clock, rendered,
                   dresp, rogVars, stabVars, rfVars, bgVars, bufVars>>

\* the loop is over: what is left in the buffer is posted
OrchFlush(ok) ==
    /\ o_pc = "loop"
    /\ o_frames = 0
    /\ IF o_buffer > 0
         THEN /\ o_calls' = Append(o_calls, Call("ingest", "", ok))
              /\ o_buffer' = IF ok THEN 0 ELSE o_buffer
              /\ o_pc' = AfterCall(ok, "finish")
         ELSE /\ o_pc' = "finish"
              /\ UNCHANGED <<o_calls, o_buffer>>
    /\ UNCHANGED <<o_frames, o_err>>
    /\ UNCHANGED <<jobVars, authVars, profVars, fnVars, objects, renders, clock, rendered,
                   dresp, rogVars, stabVars, rfVars, bgVars, bufVars>>

\* post_json(.../finish, {"status": "done"}) and the return
OrchNotifyDone(ok) ==
    /\ o_pc = "finish"
    /\ o_calls' = Append(o_calls, Call("finish", "done", ok))
    /\ o_pc' = AfterCall(ok, "done")
    /\ UNCHANGED <<o_buffer, o_frames, o_err>>
    /\ UNCHANGED <<jobVars, authVars, profVars, fnVars, objects, renders, clock, rendered,
                   dresp, rogVars, stabVars, rfVars, bgVars, bufVars>>

\* except Exception: post_json(.../finish, {"status": "failed"}), then raise
OrchNotifyFailed(ok) ==
    /\ o_pc = "except"
    /\ o_calls' = Append(o_calls, Call("finish", "failed", ok))
    /\ o_pc' = "raised"
    /\ UNCHANGED <<o_buffer, o_frames, o_err>>
    /\ UNCHANGED <<jobVars, authVars, profVars, fnVars, objects, renders, clock, rendered,
                   dresp, rogVars, stabVars, rfVars, bgVars, bufVars>>

\* the run with a video of any number of frames up to MaxFrames
InitOrchRun ==
    /\ InitDbFs({})
    /\ InitAuth
    /\ InitProfiles
    /\ InitRedactions
    /\ \E n \in 0..MaxFrames : InitOrchestrator(n)
    /\ arg = None
    /\ res = None

NextOrch ==
    \/ \E ok \in BOOLEAN : OrchNotifyStart(ok)
    \/ \E n \in 0..MaxPerFrame, ok \in BOOLEAN : OrchFrame(n, ok)
    \/ OrchError
    \/ \E ok \in BOOLEAN : OrchFlush(ok)
    \/ \E ok \in BOOLEAN : OrchNotifyDone(ok)
    \/ \E ok \in BOOLEAN : OrchNotifyFailed(ok)

\* the run is one sequential process: it takes its next step
SpecOrch == InitOrchRun /\ [][NextOrch]_vars /\ WF_vars(NextOrch)

----------------------------------------------------------------------------
(* Skip intervals, computed twice: by the stream service                    *)
(* (redaction_stream.py, _calc_skip_intervals) and by the renderer           *)
(* (pipeline_redact.py, main).  Scores and thresholds are in hundredths.     *)

MinSkips == {0, 2}
SkipLabelSets == {{}, {"alcohol"}}
\* min-score maps: empty, default only, default and one label
MsMaps == {[k \in {} |-> 0], [k \in {"default"} |-> 40],
           [k \in {"alcohol", "default"} |-> IF k = "alcohol" THEN 60 ELSE 40]}

\* sorted(s, key=...): stable, s[i] goes after every element that sorts
\* before it and after every earlier element that compares equal
sorted(s, Before(_, _)) ==
    LET n == Len(s)
        pos(i) == 1 + Cardinality({j \in 1..n :
                        Before(s[j], s[i]) \/ (~Before(s[i], s[j]) /\ j < i)})
    IN  [k \in 1..n |-> s[CHOOSE i \in 1..n : pos(i) = k]]

StartBefore(a, b) == a[1] < b[1]
PairBefore(a, b)  == a[1] < b[1] \/ (a[1] = b[1] /\ a[2] < b[2])
EvBefore(a, b) ==
    \/ LabelRank(a.label) < LabelRank(b.label)
    \/ a.label = b.label /\ a.ts_ms < b.ts_ms

RECURSIVE MergeLoop(_, _, _, _)
MergeLoop(out, ints, i, join_gap_ms) ==
    IF i > Len(ints) THEN out
    ELSE LET last == out[Len(out)]
             cur  == ints[i]
         IN  IF cur[1] <= last[2] + join_gap_ms
               THEN MergeLoop([out EXCEPT ![Len(out)] = <<last[1], Max({last[2], cur[2]})>>],
                              ints, i + 1, join_gap_ms)
               ELSE MergeLoop(Append(out, cur), ints, i + 1, join_gap_ms)

_merge_intervals(ints, join_gap_ms) ==
    IF ints = <<>> THEN <<>>
    ELSE LET s == sorted(ints, StartBefore)
         IN  MergeLoop(<<s[1]>>, s, 2, join_gap_ms)

\* min_score_map.get(lab, min_score_map.get("default", DEFAULT_THRESH))
ServiceThr(min_score_map, lab) ==
    IF lab \in DOMAIN min_score_map THEN min_score_map[lab]
    ELSE IF "default" \in DOMAIN min_score_map THEN min_score_map["default"]
    ELSE DEFAULT_THRESH

_calc_skip_intervals(events, labels_skip, min_score_map, hold_gap_ms, grace_ms, min_skip_ms) ==
    IF labels_skip = {} THEN <<>>
    ELSE LET kept   == SelectSeq(events, LAMBDA e :
                           /\ e.label \in labels_skip
                           /\ ~(e.score < ServiceThr(min_score_map, e.label)))
             ints   == [i \in 1..Len(kept) |->
                           <<Max({0, kept[i].ts_ms - grace_ms}), kept[i].ts_ms + grace_ms>>]
             merged == _merge_intervals(ints, hold_gap_ms)
         IN  SelectSeq(merged, LAMBDA iv : iv[2] - iv[1] >= Max({0, min_skip_ms}))

_ms_lookup(msmap, label, fallback) ==
    IF label \in DOMAIN msmap THEN msmap[label]
    ELSE IF \E k \in DOMAIN msmap : Lower(k) = Lower(label)
      THEN msmap[CHOOSE k \in DOMAIN msmap : Lower(k) = Lower(label)]
    ELSE IF "default" \in DOMAIN msmap THEN msmap["default"]
    ELSE fallback

\* the analyzer writes the raw label under "extra", so e.get("raw_label") is
\* absent and eff_lab is the label; every logged detection has a bbox
load_events(events, wanted_lower, min_score_map) ==
    sorted(SelectSeq(events, LAMBDA e :
               /\ (wanted_lower = None \/ Lower(e.label) \in wanted_lower[1])
               /\ ~(e.score < _ms_lookup(min_score_map, e.label, 25))),
           EvBefore)

RECURSIVE MergeThreshLoop(_, _, _, _, _)
MergeThreshLoop(out, cur, ivs, i, min_ms) ==
    IF i > Len(ivs)
      THEN IF cur[2] - cur[1] >= min_ms THEN Append(out, cur) ELSE out
    ELSE IF ivs[i][1] <= cur[2]
      THEN MergeThreshLoop(out, <<cur[1], Max({cur[2], ivs[i][2]})>>, ivs, i + 1, min_ms)
    ELSE MergeThreshLoop(IF cur[2] - cur[1] >= min_ms THEN Append(out, cur) ELSE out,
                         ivs[i], ivs, i + 1, min_ms)

_merge_and_thresh(ss, min_ms) ==
    IF ss = <<>> THEN <<>>
    ELSE LET ivs == sorted([i \in 1..Len(ss) |-> <<ss[i].start_ms, ss[i].end_ms>>], PairBefore)
         IN  MergeThreshLoop(<<>>, ivs[1], ivs, 2, min_ms)

\* main() of the renderer with only skip labels given and min_keyframes 1
skip_intervals(events, skip_labs, msmap, hold_gap_ms, grace_ms, min_skip_ms) ==
    LET want_lower == IF skip_labs = {} THEN None ELSE Some({Lower(s) : s \in skip_labs})
        evs        == load_events(events, want_lower, msmap)
        segments   == build_segments_multi(evs, hold_gap_ms, grace_ms)
        skip_set   == {Lower(l) : l \in skip_labs}
        seg_skip   == SelectSeq(segments, LAMBDA s : Lower(s.label) \in skip_set)
        kept       == SelectSeq(seg_skip, LAMBDA s : Len(s.keys) >= Max({1, 1}))
    IN  _merge_and_thresh(kept, min_skip_ms)

CalcSkipIntervals ==
    /\ res.service = None
    /\ res' = [res EXCEPT !.service =
                  Some(_calc_skip_intervals(arg.events, arg.labels_skip, arg.min_score_map,
                                            arg.hold_gap_ms, arg.grace_ms, arg.min_skip_ms))]
    /\ UNCHANGED <<arg, jobVars, authVars, profVars, svcVars>>

RenderSkipIntervals ==
    /\ res.renderer = None
    /\ res' = [res EXCEPT !.renderer =
                  Some(skip_intervals(arg.events, arg.labels_skip, arg.min_score_map,
                                      arg.hold_gap_ms, arg.grace_ms, arg.min_skip_ms))]
    /\ UNCHANGED <<arg, jobVars, authVars, profVars, svcVars>>

InitSkip ==
    /\ InitTables({})
    /\ arg \in [events : SeqsUpTo(SegEvents, MaxEvents), labels_skip : SkipLabelSets,
                min_score_map : MsMaps, hold_gap_ms : HoldGaps, grace_ms : Graces,
                min_skip_ms : MinSkips]
    /\ res = [service |-> None, renderer |-> None]
NextSkip == CalcSkipIntervals \/ RenderSkipIntervals
SpecSkip == InitSkip /\ [][NextSkip]_vars

----------------------------------------------------------------------------
(* Temporal Stabilizer (ai/inference/temporal_stabilizer.py).              *)
(* A detection is the tuple <<x1, y1, x2, y2, score, cls_id>>: the box in  *)
(* pixels, the score in hundredths.  Times are in milliseconds.            *)
MaxUpdates == 3        \* update calls in one behaviour

BoxDetL(score, cls)  == <<0, 0, 10, 10, score, cls>>
BoxDetL2(score, cls) == <<2, 0, 12, 10, score, cls>>     \* IoU 2/3 with the box of BoxDetL
BoxDetR(score, cls)  == <<40, 0, 50, 10, score, cls>>    \* apart from both

\* constructor arguments: class 0 has its own entries, class 1 falls back
\* to the defaults of the .get calls
enter_thr      == [c \in {0} |-> 70]
exit_thr       == [c \in {0} |-> 50]
n_of_m         == [c \in {0} |-> <<2, 2>>]
min_conf_map   == [c \in {0} |-> 65]
st_hold_gap_ms == 600
st_grace_ms    == 250
iou_match_thr  == 40
frame_area     == None      \* set_frame_size was not called
min_area       == 15        \* min_box_area_frac, in ten-thousandths

\* dict.get(k, default)
Get(map, k, default) == IF k \in DOMAIN map THEN map[k] ELSE default

\* iou as the fraction <<inter, den>>; the 1e-9 added to den only matters
\* for two boxes of no area, which then have iou 0
iou(a, b) ==
    LET iw == Max({0, Min({a[3], b[3]}) - Max({a[1], b[1]})})
        ih == Max({0, Min({a[4], b[4]}) - Max({a[2], b[2]})})
        aw == Max({0, a[3] - a[1]})   ah == Max({0, a[4] - a[2]})
        bw == Max({0, b[3] - b[1]})   bh == Max({0, b[4] - b[2]})
    IN  IF aw * ah + bw * bh - iw * ih = 0 THEN <<0, 1>>
        ELSE <<iw * ih, aw * ah + bw * bh - iw * ih>>
FracGt(f, g) == f[1] * g[2] > g[1] * f[2]

Track(tid, det) ==
    [tid |-> tid, det |-> det, cls_state |-> -1, lock_until_ms |-> 0, last_seen_ms |-> 0,
     score_hist |-> <<>>, cls_hist |-> <<>>, confirmed |-> FALSE]

\* the inner loop of _associate: <<best_iou, best_j>> (best_j 0: none)
RECURSIVE BestLoop(_, _, _, _, _, _)
BestLoop(trk_det, detections, used, j, best_iou, best_j) ==
    IF j > Len(detections) THEN <<best_iou, best_j>>
    ELSE IF j \in used THEN BestLoop(trk_det, detections, used, j + 1, best_iou, best_j)
    ELSE IF FracGt(iou(trk_det, detections[j]), best_iou)
      THEN BestLoop(trk_det, detections, used, j + 1, iou(trk_det, detections[j]), j)
      ELSE BestLoop(trk_det, detections, used, j + 1, best_iou, best_j)

\* the loop over self.tracks.items(): a dict keeps insertion order, which is
\* the order of the track ids
RECURSIVE AssocLoop(_, _, _, _, _, _)
AssocPick(best, tracks, tids, k, detections, assigned, used) ==
    IF 100 * best[1][1] >= iou_match_thr * best[1][2] /\ best[2] >= 1
      THEN AssocLoop(tracks, tids, k + 1, detections,
                     assigned @@ (tids[k] :> detections[best[2]]), used \cup {best[2]})
      ELSE AssocLoop(tracks, tids, k + 1, detections, assigned, used)
AssocLoop(tracks, tids, k, detections, assigned, used) ==
    IF k > Len(tids) THEN [assigned |-> assigned, used |-> used]
    ELSE AssocPick(BestLoop(tracks[tids[k]].det, detections, used, 1, <<0, 1>>, 0),
                   tracks, tids, k, detections, assigned, used)

\* the second loop: every unmatched detection opens a track
RECURSIVE SpawnLoop(_, _, _, _, _, _)
SpawnLoop(tracks, next_tid, assigned, used, detections, j) ==
    IF j > Len(detections) THEN [tracks |-> tracks, next_tid |-> next_tid, assigned |-> assigned]
    ELSE IF j \in used THEN SpawnLoop(tracks, next_tid, assigned, used, detections, j + 1)
    ELSE SpawnLoop(tracks @@ (next_tid :> Track(next_tid, detections[j])), next_tid + 1,
                   assigned @@ (next_tid :> detections[j]), used, detections, j + 1)
SpawnFrom(a, tracks, next_tid, detections) == SpawnLoop(tracks, next_tid, a.assigned, a.used, detections, 1)

_associate(tracks, next_tid, detections) ==
    SpawnFrom(AssocLoop(tracks, SortedTs(DOMAIN tracks), 1, detections, <<>>, {}),
              tracks, next_tid, detections)

_area_ok(det) ==
    IF frame_area = None THEN TRUE
    ELSE 10000 * Max({0, det[3] - det[1]}) * Max({0, det[4] - det[2]}) >= min_area * frame_area[1]

Seen(trk, t_ms, det) ==
    [trk EXCEPT !.det = det, !.last_seen_ms = t_ms,
                !.score_hist = Append(@, det[5]), !.cls_hist = Append(@, det[6])]

\* the hysteresis without the lock window
HysteresisNoWindow(trk, t_ms, score, cls_id) ==
    IF trk.cls_state = -1
      THEN IF score >= Get(enter_thr, cls_id, 60)
             THEN [trk EXCEPT !.cls_state = cls_id, !.lock_until_ms = t_ms + st_grace_ms]
             ELSE trk
    ELSE IF score < Get(exit_thr, trk.cls_state, 45)
      THEN [trk EXCEPT !.cls_state = -1]
      ELSE [trk EXCEPT !.lock_until_ms = t_ms + st_grace_ms]
Hysteresis(trk, t_ms, score, cls_id) ==
    IF trk.cls_state = -1
      THEN IF score >= Get(enter_thr, cls_id, 60)
             THEN [trk EXCEPT !.cls_state = cls_id, !.lock_until_ms = t_ms + st_grace_ms]
             ELSE trk
    ELSE IF t_ms < trk.lock_until_ms
      THEN trk
    ELSE IF score < Get(exit_thr, trk.cls_state, 45)
      THEN [trk EXCEPT !.cls_state = -1]
      ELSE [trk EXCEPT !.lock_until_ms = t_ms + st_grace_ms]

\* hist[-M:]  (hist[-0:] is the whole list)
WholeHist(hist, M) == hist
LastM(hist, M) ==
    IF M = 0 \/ M >= Len(hist) THEN hist ELSE SubSeq(hist, Len(hist) - M + 1, Len(hist))
Count(hist, x) == Cardinality({i \in 1..Len(hist) : hist[i] = x})
NofM(nm, trk) == Count(LastM(trk.cls_hist, nm[2]), trk.cls_state) >= nm[1]
Confirm(trk) ==
    IF trk.cls_state # -1
      THEN [trk EXCEPT !.confirmed = NofM(Get(n_of_m, trk.cls_state, <<2, 5>>), trk)]
      ELSE trk
Matched(trk, t_ms, det) == Confirm(Hysteresis(Seen(trk, t_ms, det), t_ms, det[5], det[6]))

\* the output filter of a matched track, and the tuple appended to out
Emits(trk) ==
    /\ trk.cls_state # -1
    /\ trk.confirmed
    /\ trk.det[5] >= Get(min_conf_map, trk.cls_state, 50)
OutTuple(trk) ==
    <<trk.det[1], trk.det[2], trk.det[3], trk.det[4], trk.det[5], trk.cls_state>>

\* a track without a detection: carried, or dropped when silent for too long
Held(trk, t_ms) ==
    /\ (t_ms - trk.last_seen_ms) <= st_hold_gap_ms
    /\ trk.cls_state # -1
    /\ trk.confirmed
StaleAfterHold(trk, t_ms) == (t_ms - trk.last_seen_ms) > st_hold_gap_ms
Stale(trk, t_ms) == (t_ms - trk.last_seen_ms) > Max({st_hold_gap_ms, 2000})

\* the loop of update over list(self.tracks.items())
TrackAfter(a, t_ms) ==
    [tid \in DOMAIN a.tracks |->
        IF tid \in DOMAIN a.assigned THEN Matched(a.tracks[tid], t_ms, a.assigned[tid])
        ELSE a.tracks[tid]]
EmitsNow(after, assigned, t_ms, tid) ==
    IF tid \in DOMAIN assigned THEN Emits(after[tid]) ELSE Held(after[tid], t_ms)
Loop(after, a, t_ms) ==
    [tracks   |-> [tid \in {x \in DOMAIN after :
                               \/ x \in DOMAIN a.assigned
                               \/ Held(after[x], t_ms)
                               \/ ~Stale(after[x], t_ms)} |-> after[tid]],
     next_tid |-> a.next_tid,
     assigned |-> a.assigned,
     out      |-> LET tids == SelectSeq(SortedTs(DOMAIN after),
                                        LAMBDA x : EmitsNow(after, a.assigned, t_ms, x))
                  IN  [i \in 1..Len(tids) |->
                          [tid |-> tids[i], det |-> OutTuple(after[tids[i]])]]]
LoopOver(a, t_ms) == Loop(TrackAfter(a, t_ms), a, t_ms)

update(tracks, next_tid, t_ms, detections) ==
    LoopOver(_associate(tracks, next_tid, SelectSeq(detections, _area_ok)), t_ms)

\* the update calls of the model: the time moves on by one of StabDeltas
StabDeltas == {100, 700, 2100}
StabDets ==
    {<<>>,
     <<BoxDetL(80, 0)>>, <<BoxDetL(80, 1)>>, <<BoxDetL(55, 1)>>, <<BoxDetL(40, 0)>>,
     <<BoxDetL2(55, 0)>>, <<BoxDetR(80, 1)>>,
     <<BoxDetL(80, 0), BoxDetR(80, 1)>>, <<BoxDetR(40, 1), BoxDetL2(80, 0)>>,
     <<BoxDetL(80, 0), BoxDetL2(80, 0)>>}

Returned(r, t_ms) ==
    /\ st_tracks' = r.tracks
    /\ st_next_tid' = r.next_tid
    /\ st_assigned' = r.assigned
    /\ st_out' = r.out
    /\ st_t' = t_ms
    /\ st_updates' = st_updates + 1

Update(t_ms, detections) ==
    /\ st_updates < MaxUpdates
    /\ Returned(update(st_tracks, st_next_tid, t_ms, detections), t_ms)
    /\ UNCHANGED <<jobVars, authVars, profVars, fnVars, objects, renders, clock, rendered,
                   dresp, rogVars, orchVars, rfVars, bgVars, bufVars>>

InitStab == InitDb({})
NextStab == \E d \in StabDeltas, ds \in StabDets : Update(st_t + d, ds)
SpecStab == InitStab /\ [][NextStab]_vars

----------------------------------------------------------------------------
(* Skip-interval consolidation and the frame loop of the renderer          *)
(* (pipeline_redact.py, main): the skip-bucket segments come sorted by     *)
(* start_ms from build_segments_multi, each with start_ms <= end_ms.       *)
MaxSpan == 3       \* latest start or end of a skip segment
MaxSegs == 3       \* skip-bucket segments of one render

Span(s, e) == [start_ms |-> s, end_ms |-> e]
Spans(n) == {sp \in {Span(s, e) : s \in 0..n, e \in 0..n} : sp.start_ms <= sp.end_ms}
ByStart(ss) == \A i \in 1..(Len(ss) - 1) : ss[i].start_ms <= ss[i + 1].start_ms

\* in_skip with both comparisons strict
in_skip_open(skip_ivs, ts) ==
    \E i \in 1..Len(skip_ivs) : skip_ivs[i][1] < ts /\ ts < skip_ivs[i][2]
in_skip(skip_ivs, ts) ==
    \E i \in 1..Len(skip_ivs) : skip_ivs[i][1] <= ts /\ ts <= skip_ivs[i][2]

\* if skip_intervals: keep_audio = False  else: keep_audio = bool(args.keep_audio)
KeepAudio(skip_ivs, args_keep_audio) == IF skip_ivs # <<>> THEN FALSE ELSE args_keep_audio

\* the frame loop: one frame per millisecond of the model; out.write(frame)
\* is reached for the frames not skipped
Written(skip_ivs, frames) == {ts \in frames : ~in_skip(skip_ivs, ts)}

Consolidated(skip_ivs, a) ==
    [skip_intervals |-> skip_ivs,
     keep_audio     |-> KeepAudio(skip_ivs, a.keep_audio),
     written        |-> Written(skip_ivs, 0..(MaxSpan + 1))]

RenderSkips ==
    /\ res = None
    /\ res' = Some(Consolidated(_merge_and_thresh(arg.seg_skip, arg.min_skip_ms), arg))
    /\ UNCHANGED <<arg, jobVars, authVars, profVars, svcVars>>

InitConsolidate ==
    /\ InitTables({})
    /\ arg \in [seg_skip : {ss \in SeqsUpTo(Spans(MaxSpan), MaxSegs) : ByStart(ss)},
                min_skip_ms : MinSkips, keep_audio : BOOLEAN]
    /\ res = None
NextConsolidate == RenderSkips
SpecConsolidate == InitConsolidate /\ [][NextConsolidate]_vars

----------------------------------------------------------------------------
(* POST /auth/refresh step by step (routers/auth.py, refresh_token): the   *)
(* handler runs in a worker thread with a session of its own, and          *)
(* refresh_exists, revoke_refresh_jti and store_refresh_jti are three      *)
(* statements, the last two committed one by one.  Requests of two callers *)
(* interleave between the statements.                                      *)
MaxRacePairs == 3      \* token pairs signed in one behaviour of SpecRefreshRace

RfLog(c, tok, code, new_jti) == [caller |-> c, jti |-> tok.jti, code |-> code, new_jti |-> new_jti]

\* decode_token, the typ test and repo.refresh_exists(jti)
RefreshCheck(c, tok) ==
    /\ rf[c].pc = "idle"
    /\ IF ~decode_token(tok, now) \/ tok.typ # "refresh"
            \/ ~refresh_exists(refresh_tbl, tok.jti)
         THEN /\ aresp' = AResp("refresh", 401, tok.sub, tok.jti, FALSE)
              /\ UNCHANGED <<rf, rf_log>>
         ELSE /\ rf' = [rf EXCEPT ![c] = [pc |-> "checked", tok |-> tok]]
              /\ UNCHANGED <<aresp, rf_log>>
    /\ UNCHANGED <<now, users, refresh_tbl, blacklist, rl, issued, jobVars, profVars, fnVars,
                   objects, renders, clock, rendered, dresp, rogVars, orchVars, stabVars, bgVars, bufVars>>

\* repo.revoke_refresh_jti(jti): DELETE ... WHERE jti=:j; commit
RefreshRevoke(c) ==
    /\ rf[c].pc = "checked"
    /\ refresh_tbl' = revoke_refresh_jti(refresh_tbl, rf[c].tok.jti)
    /\ rf' = [rf EXCEPT ![c].pc = "revoked"]
    /\ UNCHANGED <<now, users, blacklist, rl, issued, aresp, rf_log, jobVars, profVars, fnVars,
                   objects, renders, clock, rendered, dresp, rogVars, orchVars, stabVars, bgVars, bufVars>>

\* create_access_token, create_refresh_token, repo.store_refresh_jti, return
RefreshStored(c, acc, ref) ==
    /\ issued' = issued \cup {acc, ref}
    /\ refresh_tbl' = store_refresh_jti(refresh_tbl, ref.jti, rf[c].tok.sub)
    /\ aresp' = AResp("refresh", 200, rf[c].tok.sub, rf[c].tok.jti, FALSE)
    /\ rf_log' = rf_log \cup {RfLog(c, rf[c].tok, 200, ref.jti)}
    /\ rf' = [rf EXCEPT ![c] = Idle]
RefreshStore(c) ==
    /\ rf[c].pc = "revoked"
    /\ Cardinality(issued) < 2 * MaxRacePairs
    /\ RefreshStored(c, _claims(rf[c].tok.sub, "access", FreshJti(1), now),
                     _claims(rf[c].tok.sub, "refresh", FreshJti(2), now))
    /\ UNCHANGED <<now, users, blacklist, rl, jobVars, profVars, fnVars,
                   objects, renders, clock, rendered, dresp, rogVars, orchVars, stabVars, bgVars, bufVars>>

\* one session is opened; its tokens and those that follow are presented
NextRefreshRace ==
    \/ \E e \in Emails : Register(e)
    \/ \E h \in Hosts, e \in users : issued = {} /\ Login(h, e, TRUE)
    \/ \E c \in Callers, t \in Presented : RefreshCheck(c, t)
    \/ \E c \in Callers : RefreshRevoke(c)
    \/ \E c \in Callers : RefreshStore(c)

SpecRefreshRace == InitAuthOnly /\ [][NextRefreshRace]_vars

----------------------------------------------------------------------------
(* Legacy Uploads Router (apps/api/routers/uploads.py): POST /uploads/video *)
(* stores the file, creates the job as queued and hands run_pipeline to    *)
(* the background tasks; run_pipeline runs the orchestrator as a           *)
(* subprocess, which notifies the Analyses Router.  The Background Worker  *)
(* polls the same analysis_jobs table.                                     *)
LegacyKey(n) == <<"/", "data", "uploads", UpNames[n]>>

\* POST /uploads/video
LegacyUpload ==
    /\ Len(jobs) < MaxJobs
    /\ LET j == Len(jobs) + 1 IN
         /\ files' = files \cup {LegacyKey(j)}
         /\ videos' = videos \cup {LegacyKey(j)}
         /\ \E at \in CreatedNow :
               jobs' = Append(jobs, NewJob(LegacyKey(j), "queued", FALSE, at))
         /\ bg' = [bg EXCEPT ![j] = "scheduled"]
    /\ UNCHANGED <<dets, logs, workerVars, resp, authVars, profVars, fnVars,
                   objects, renders, clock, rendered, dresp, rogVars, orchVars, stabVars, rfVars, bufVars>>

\* run_pipeline, the subprocess up to its start notification: post_json(.../start)
\* in its own try/except (ok: the request was answered)
PipelineStart(j, ok) ==
    /\ bg[j] = "scheduled"
    /\ jobs' = IF ok THEN StampStart(SetStatus(jobs, j, "running"), j) ELSE jobs
    /\ bg' = [bg EXCEPT ![j] = "started"]
    /\ UNCHANGED <<videos, dets, fsVars, workerVars, resp, authVars, profVars, fnVars,
                   objects, renders, clock, rendered, dresp, rogVars, orchVars, stabVars, rfVars, bufVars>>

\* the subprocess posting a batch of detections for its job
PipelineIngest(j, body) ==
    /\ bg[j] = "started"
    /\ Ingest(j, body)

\* the subprocess from the end of its frame loop: the finish notification
\* ({"status": "done"}, or {"status": "failed"} from the except block, which
\* then raises) and the exit code
PipelineFinish(j, st, ok) ==
    /\ bg[j] = "started"
    /\ jobs' = IF ok THEN StampFinish(SetStatus(jobs, j, FinishStatus("none", st)), j) ELSE jobs
    /\ bg' = [bg EXCEPT ![j] = IF st = "done" THEN "over" ELSE "exited"]
    /\ UNCHANGED <<videos, dets, fsVars, workerVars, resp, authVars, profVars, fnVars,
                   objects, renders, clock, rendered, dresp, rogVars, orchVars, stabVars, rfVars, bufVars>>

\* the subprocess failing before its try block (no input, no detectors)
PipelineCrash(j) ==
    /\ bg[j] = "scheduled"
    /\ bg' = [bg EXCEPT ![j] = "exited"]
    /\ UNCHANGED <<jobVars, authVars, profVars, fnVars,
                   objects, renders, clock, rendered, dresp, rogVars, orchVars, stabVars, rfVars, bufVars>>

\* run_pipeline after the subprocess: if res.returncode != 0, mark the job failed
PipelineExited(j) ==
    /\ bg[j] = "exited"
    /\ jobs' = SetStatus(jobs, j, "failed")
    /\ bg' = [bg EXCEPT ![j] = "over"]
    /\ UNCHANGED <<videos, dets, fsVars, workerVars, resp, authVars, profVars, fnVars,
                   objects, renders, clock, rendered, dresp, rogVars, orchVars, stabVars, rfVars, bufVars>>

InitLegacy == InitDb({})

NextLegacy ==
    \/ LegacyUpload
    \/ \E j \in JobIds, ok \in BOOLEAN : PipelineStart(j, ok)
    \/ \E j \in JobIds, b \in SmallBodies : PipelineIngest(j, b)
    \/ \E j \in JobIds, st \in {"done", "failed"}, ok \in BOOLEAN : PipelineFinish(j, st, ok)
    \/ \E j \in JobIds : PipelineCrash(j)
    \/ \E j \in JobIds : PipelineExited(j)
    \/ WorkerPick
    \/ WorkerPollEmpty
    \/ \E d, io \in BOOLEAN, a \in AnalyzerRuns : WorkerProcess(d, io, a[1], a[2])

SpecLegacy == InitLegacy /\ [][NextLegacy]_vars

----------------------------------------------------------------------------
(* The orchestrator's buffer (pipeline_analyze.py, run, the frame loop and *)
(* the final flush) against the ingest handler.  A kept detection is named *)
(* by its frame and its place in the frame.  An ingest call ends in one of *)
(* three ways: "ok" (the server commits the batch and post_json returns),  *)
(* "lost" (the request fails before the server commits anything) or "late" *)
(* (the server commits the batch, and post_json raises: the 60 s timeout,  *)
(* a dropped connection, an unreadable answer).                            *)
IngestEnds == {"ok", "lost", "late"}

KeptInFrame(f, n) == [i \in 1..n |-> <<f, i>>]
\* does the server commit the batch: ingest appends every detection of the body
ServerCommits(end) == end \in {"ok", "late"}
\* does post_json return
Returns(end) == end = "ok"

\* post_json(.../ingest, {"detections": buffer}); buffer.clear() -- in a
\* try/except Exception that only prints
PostBuffer(items, end, next) ==
    /\ o_calls' = Append(o_calls, Call("ingest", "", Returns(end)))
    /\ ob_rows' = IF ServerCommits(end) THEN ob_rows \o items ELSE ob_rows
    /\ ob_items' = IF Returns(end) THEN <<>> ELSE items
    /\ o_buffer' = IF Returns(end) THEN 0 ELSE Len(items)
    /\ o_pc' = AfterCall(Returns(end), next)

\* one iteration of the frame loop: buffer.extend(valid_events), then the
\* batch is posted once len(buffer) >= batch_size
BufferedFrame(n, end) ==
    /\ o_pc = "loop"
    /\ o_frames > 0
    /\ o_frames' = o_frames - 1
    /\ IF Len(ob_items) + n >= batch_size
         THEN PostBuffer(ob_items \o KeptInFrame(o_frames, n), end, "loop")
         ELSE /\ ob_items' = ob_items \o KeptInFrame(o_frames, n)
              /\ o_buffer' = Len(ob_items) + n
              /\ UNCHANGED <<o_calls, o_pc, ob_rows>>
    /\ UNCHANGED o_err
    /\ UNCHANGED <<jobVars, authVars, profVars, fnVars, objects, renders, clock, rendered,
                   dresp, rogVars, stabVars, rfVars, bgVars>>

\* after the loop: if buffer: post it, clear it
BufferedFlush(end) ==
    /\ o_pc = "loop"
    /\ o_frames = 0
    /\ IF ob_items # <<>>
         THEN PostBuffer(ob_items, end, "finish")
         ELSE /\ o_pc' = "finish"
              /\ UNCHANGED <<o_calls, o_buffer, ob_items, ob_rows>>
    /\ UNCHANGED <<o_frames, o_err>>
    /\ UNCHANGED <<jobVars, authVars, profVars, fnVars, objects, renders, clock, rendered,
                   dresp, rogVars, stabVars, rfVars, bgVars>>

NextBuffer ==
    \/ \E ok \in BOOLEAN : OrchNotifyStart(ok)
    \/ \E n \in 0..MaxPerFrame, end \in IngestEnds : BufferedFrame(n, end)
    \/ OrchError
    \/ \E end \in IngestEnds : BufferedFlush(end)
    \/ \E ok \in BOOLEAN : OrchNotifyDone(ok)
    \/ \E ok \in BOOLEAN : OrchNotifyFailed(ok)

SpecBuffer == InitOrchRun /\ [][NextBuffer]_vars

----------------------------------------------------------------------------
(* C1. An AnalysisJob's status only moves forward: no job goes from        *)
(* running back to queued, and a job that has reached done or failed never *)
(* changes status again.                                                   *)
C1_StatusForwardOnly ==
    [][\A j \in JobIds :
          /\ ~(jobs[j].status = "running" /\ jobs'[j].status = "queued")
          /\ (jobs[j].status \in {"done", "failed"} => jobs'[j].status = jobs[j].status)]_vars

(* C2. Refresh-token rotation: a successful refresh with token R removes   *)
(* R's jti from the recorded jtis and records exactly one new jti, for the *)
(* same user; a failed refresh (invalid, wrong type or unrecorded jti)     *)
(* answers 401 and records and revokes nothing; a jti that has been handed *)
(* out and is not recorded is never recorded again, so a second refresh    *)
(* with R fails.                                                           *)
C2_RefreshRotation ==
    [][/\ \A tok \in Presented :
            Refresh(tok) =>
              IF /\ tok.sig = "ok" /\ now < tok.exp /\ tok.typ = "refresh"
                 /\ \E r \in refresh_tbl : r.jti = tok.jti
                THEN /\ aresp'.code = 200
                     /\ \A r \in refresh_tbl' : r.jti # tok.jti
                     /\ \E j \in {r.jti : r \in refresh_tbl'} \ {r.jti : r \in refresh_tbl} :
                           refresh_tbl' = {r \in refresh_tbl : r.jti # tok.jti}
                                             \cup {[jti |-> j, user_id |-> tok.sub]}
                     /\ Cardinality(refresh_tbl') = Cardinality(refresh_tbl)
                ELSE /\ aresp'.code = 401
                     /\ refresh_tbl' = refresh_tbl
                     /\ issued' = issued
       /\ \A j \in 1..Cardinality(issued) :
            (\A r \in refresh_tbl : r.jti # j) => (\A r \in refresh_tbl' : r.jti # j)
      ]_vars

\* A refresh token that was rotated is presented again and answered 401,
\* while its successor is recorded for the same user.
C2_Witness ==
    /\ aresp.op = "refresh" /\ aresp.code = 401
    /\ \E t \in RefreshTokens :
          /\ t.jti = aresp.jti
          /\ \A r \in refresh_tbl : r.jti # t.jti
          /\ \E r \in refresh_tbl : r.jti > t.jti /\ r.user_id = t.sub

(* C3. Once logout has blacklisted access token T's jti, every request     *)
(* that presents T before T's expiry is answered 401 by every bearer       *)
(* dependency: get_current_user (GET /auth/me, /me/preferences) and        *)
(* resolve_user (GET /redactions/download/{video_id}).                     *)
C3_BlacklistedRejected ==
    [][\A tok \in issued :
          (tok.typ = "access" /\ tok.jti \in blacklist.members /\ now < tok.exp) =>
             /\ \A ep \in {"me", "preferences"} :
                   get_current_user(ep, tok) => aresp'.code = 401
             /\ resolve_user(tok) => aresp'.code = 401]_vars

(* C4. A profile resolved or modified on behalf of caller U belongs to U:  *)
(* the profile every operation returns is owned by its caller, and a       *)
(* profile row changes only in a request of its owner.                     *)
C4_ResolvedProfileOwned ==
    [][/\ presp'.pid # 0 => profiles'[presp'.pid].user_id = presp'.caller
       /\ \A i \in ProfileIds :
            profiles'[i] # profiles[i] => profiles[i].user_id = presp'.caller]_vars

(* C5. Login rate limit: every login attempt for a (client address, email) *)
(* pair increments that pair's counter and re-arms its 60-second expiry,   *)
(* leaving the other pairs' counters alone; attempts 1 to 5 of a live      *)
(* counter are answered by the credential check (200 or 401), the 6th and  *)
(* every later one is answered 429 with no token issued and no refresh jti *)
(* stored, whether or not the password is correct.                         *)
C5_LoginRateLimit ==
    [][\A h \in Hosts, e \in Emails, ok \in BOOLEAN :
          Login(h, e, ok) =>
            LET key == <<h, e>>
                n   == (IF rl[key].exp = None \/ now < rl[key].exp[1]
                          THEN rl[key].count ELSE 0) + 1
            IN  /\ rl'[key] = [count |-> n, exp |-> <<now + 60>>]
                /\ \A k \in DOMAIN rl \ {key} : rl'[k] = rl[k]
                /\ n > 5 => /\ aresp'.code = 429
                            /\ issued' = issued
                            /\ refresh_tbl' = refresh_tbl
                /\ n <= 5 => aresp'.code = IF e \in users /\ ok THEN 200 ELSE 401
      ]_vars

\* A registered user's sixth attempt, with the correct password, answered 429.
C5_Witness ==
    \E h \in Hosts, e \in users :
        /\ rl[<<h, e>>].count >= 6
        /\ aresp = AResp("login", 429, e, 0, TRUE)

(* C6. Every stored DetectionEvent has 0 <= score <= 1, ts_ms >= 0 and a   *)
(* label among alcohol, blood, violence, phobic, obscene, whichever        *)
(* ingestion path stored it; a phobia sub-label or nudity variant is never *)
(* the stored label.                                                       *)
C6_StoredDetectionsValid ==
    \A i \in 1..Len(dets) :
        /\ dets[i].score >= 0 /\ dets[i].score <= 100
        /\ dets[i].ts_ms >= 0
        /\ dets[i].label \in {"alcohol", "blood", "violence", "phobic", "obscene"}
        /\ dets[i].label \notin {"clown", "spider", "snake", "Clown", "Spider", "Snake",
                                 "nudity", "nudenet"}

\* A row stored by the JSON-Lines path from a "Clown" line next to a row
\* stored by POST ingest.
C6_Witness ==
    \E i, k \in 1..Len(dets) :
        /\ dets[i].label = "phobic" /\ dets[i].raw_label = "Clown" /\ dets[i].score = 90
        /\ dets[k].label = "alcohol" /\ dets[k].score = 50
        /\ jobs[dets[k].job_id].status = "queued"

(* C7. POST ingest is all-or-nothing per batch: with an unknown job or any *)
(* invalid detection (bad label, negative ts_ms, score outside [0,1]) the  *)
(* stored detections are unchanged and the request is answered 404, 400 or *)
(* 422; otherwise every detection of the batch is appended once, in order, *)
(* and the returned count is the batch size.                               *)
C7_IngestAllOrNothing ==
    [][\A j \in ReqJobIds, body \in Bodies :
          Ingest(j, body) =>
            LET fields == \A i \in 1..Len(body) :
                             /\ body[i].ts_ms >= 0
                             /\ body[i].score >= 0 /\ body[i].score <= 100
                labels == \A i \in 1..Len(body) :
                             body[i].label \in {"alcohol", "blood", "violence",
                                                "phobic", "obscene"}
            IN  IF j \in JobIds /\ fields /\ labels
                  THEN /\ dets' = dets \o [i \in 1..Len(body) |->
                                      [job_id |-> j, ts_ms |-> body[i].ts_ms,
                                       label |-> body[i].label, score |-> body[i].score,
                                       raw_label |-> body[i].raw_label]]
                       /\ resp' = [code |-> 200, inserted |-> Len(body)]
                  ELSE /\ dets' = dets
                       /\ resp'.inserted = 0
                       /\ resp'.code = IF ~fields THEN 422
                                       ELSE IF j \notin JobIds THEN 404 ELSE 400
      ]_vars

\* A batch was answered 400 after an earlier batch had stored one row.
C7_Witness == resp = Reply(400, 0) /\ Len(dets) = 1

(* C8. The finish request records the status its caller specified: the     *)
(* orchestrator's finish notification with status st leaves the job with   *)
(* status st and a stamped finish time.                                    *)
C8_FinishRecordsCallerStatus ==
    [][\A j \in JobIds, st \in {"done", "failed"} :
          OrchFinish(j, st) => (jobs'[j].status = st /\ jobs'[j].finished_at)]_vars

(* C9. The worker has at most one job in flight: a pick takes a queued job  *)
(* of smallest created_at and marks it running, changing no other job; the *)
(* worker holds that job until it has itself set it to done (with a log    *)
(* written) or failed, and only then polls again; with no queued job a     *)
(* poll picks nothing.                                                     *)
C9_WorkerOneInFlight ==
    [][/\ (w_pc = "poll" /\ w_pc' = "picked") =>
            /\ w_job = 0 /\ w_job' \in JobIds
            /\ jobs[w_job'].status = "queued"
            /\ \A k \in JobIds : jobs[k].status = "queued"
                                    => jobs[w_job'].created_at <= jobs[k].created_at
            /\ jobs'[w_job'].status = "running"
            /\ \A k \in JobIds \ {w_job'} : jobs'[k] = jobs[k]
       /\ (w_pc = "picked" /\ w_pc' = "picked") => w_job' = w_job
       /\ (w_pc = "picked" /\ w_pc' = "poll") =>
            /\ jobs'[w_job].status \in {"done", "failed"}
            /\ (jobs'[w_job].status = "done" => w_job \in logs')
            /\ w_job' = 0
       /\ (w_pc = "poll" /\ \A k \in JobIds : jobs[k].status # "queued") =>
            (w_pc' = "poll" /\ w_job' = 0)
      ]_vars

\* The worker holds the younger of two jobs after it has finished the older.
C9_Witness ==
    /\ w_pc = "picked"
    /\ \E k \in JobIds : /\ k # w_job
                          /\ jobs[k].status = "done" /\ k \in logs
                          /\ jobs[k].created_at < jobs[w_job].created_at

(* C10. The worker never deletes a file that was already the asset's own   *)
(* local path: every storage key that names an existing local file still   *)
(* names one after process_one returns.                                    *)
C10_LocalAssetKept == \A k \in videos \cap {AbsKey, RelKey} : k \in files

(* C11. compute_effective_modes returns a map on exactly the categories of *)
(* allow_map and mode_map; an allowed category maps to "none", a category  *)
(* only in mode_map maps to its mode_map mode, and a category that is not  *)
(* allowed maps to its mode_map mode if it has one, else to the global     *)
(* mode. So mode skip, allow_map {blood: true}, mode_map {alcohol: blur}   *)
(* gives {blood: none, alcohol: blur}.                                     *)
C11_EffectiveModes ==
    res # None =>
      LET out == res[1]
          am  == arg.allow_map
          mm  == arg.mode_map
      IN  /\ DOMAIN out = DOMAIN am \cup DOMAIN mm
          /\ \A c \in DOMAIN out :
               /\ (c \in DOMAIN am /\ am[c]) => out[c] = "none"
               /\ (c \notin DOMAIN am) => out[c] = mm[c]
               /\ (c \in DOMAIN am /\ ~am[c]) =>
                     out[c] = IF c \in DOMAIN mm THEN mm[c]
                              ELSE IF arg.mode = "" THEN "blur" ELSE arg.mode


(* C12. The blur, red and skip lists returned by _labels_from_mode_map are *)
(* pairwise disjoint, and their union is non-empty whenever some key of    *)
(* the map is routed to blur, red or skip.                                 *)
C12_LabelListsDisjoint ==
    res # None =>
      LET r == res[1] IN
        /\ r.blur \cap r.red = {}
        /\ r.blur \cap r.skip = {}
        /\ r.red \cap r.skip = {}
        /\ (\E k \in DOMAIN arg.mode_map : arg.mode_map[k] \in {"blur", "red", "skip"})
              => (r.blur \cup r.red \cup r.skip) # {}


\* the input is two spatially matching detections of one label, gap ms apart
TwoMatching(gap) ==
    /\ Len(arg.events) = 2
    /\ arg.events[1].label = arg.events[2].label
    /\ ~TooFar(arg.events[1].bbox, arg.events[2].bbox)
    /\ \/ arg.events[2].ts_ms - arg.events[1].ts_ms = gap
       \/ arg.events[1].ts_ms - arg.events[2].ts_ms = gap
OneSegmentOfBoth == Len(res[1]) = 1 /\ Len(res[1][1].keys) = 2
TwoSegments == Len(res[1]) = 2 /\ \A i \in 1..2 : Len(res[1][i].keys) = 1

(* C13 as stated. Two spatially matching detections of one label at t and  *)
(* t + hold_gap_ms are keyframes of one segment, and at t and              *)
(* t + hold_gap_ms + 1 they are in two segments, for every                 *)
(* hold_gap_ms >= 0 and grace_ms >= 0.                                     *)
C13_HoldGapBoundary_Original ==
    res # None =>
      /\ TwoMatching(arg.hold_gap_ms) => OneSegmentOfBoth
      /\ TwoMatching(arg.hold_gap_ms + 1) => TwoSegments

(* C13. Two spatially matching detections of one label at t and            *)
(* t + hold_gap_ms are keyframes of one segment when hold_gap_ms >= 1, and *)
(* at t and t + hold_gap_ms + 1 they are in two segments for every         *)
(* hold_gap_ms >= 0; grace_ms plays no part. Two detections of one         *)
(* timestamp (hold_gap_ms = 0) open two segments.                          *)
C13_HoldGapBoundary ==
    res # None =>
      /\ (arg.hold_gap_ms >= 1 /\ TwoMatching(arg.hold_gap_ms)) => OneSegmentOfBoth
      /\ TwoMatching(arg.hold_gap_ms + 1) => TwoSegments
      /\ (arg.hold_gap_ms = 0 /\ TwoMatching(0)) => TwoSegments
C13_Witness ==
    /\ res # None
    /\ arg.hold_gap_ms = 2 /\ arg.grace_ms = 2
    /\ TwoMatching(2)
    /\ OneSegmentOfBoth
    /\ res[1][1].end_ms = res[1][1].start_ms + 4


\* the fraction f is the value v / lies between the values a and b
FracIs(f, v) == f[1] = v * f[2]
FracBetween(f, a, b) == Min({a, b}) * f[2] <= f[1] /\ f[1] <= Max({a, b}) * f[2]
IsKey(r, key) == /\ \A i \in 1..4 : FracIs(r.box[i], key[2][i])
                 /\ FracIs(r.score, key[3])
BetweenKeys(r, k0, k1) == /\ \A i \in 1..4 : FracBetween(r.box[i], k0[2][i], k1[2][i])
                          /\ FracBetween(r.score, k0[3], k1[3])

(* C14. bbox_at_time(seg, t) is None for t < seg.start_ms and for          *)
(* t > seg.end_ms; from the last keyframe to seg.end_ms, and from          *)
(* seg.start_ms to the first keyframe, it is that keyframe's box and score *)
(* unchanged; between two consecutive keyframes its box and score lie      *)
(* between those of the two keyframes.                                     *)
C14_BboxAtTime ==
    res # None =>
      LET seg == arg.seg  t == arg.t_ms  keys == arg.seg.keys IN
        /\ (t < seg.start_ms \/ t > seg.end_ms) => res[1] = None
        /\ (seg.start_ms <= t /\ t <= seg.end_ms) =>
             /\ res[1] # None
             /\ t >= LastKey(seg)[1] => IsKey(res[1][1], LastKey(seg))
             /\ t <= keys[1][1] => IsKey(res[1][1], keys[1])
             /\ \A i \in 1..(Len(keys) - 1) :
                  (keys[i][1] <= t /\ t <= keys[i + 1][1])
                     => BetweenKeys(res[1][1], keys[i], keys[i + 1])
C14_Witness ==
    /\ res # None /\ res[1] # None
    /\ Len(arg.seg.keys) = 2
    /\ arg.seg.keys[1][1] < arg.t_ms /\ arg.t_ms < arg.seg.keys[2][1]
    /\ arg.seg.keys[1][2] # arg.seg.keys[2][2]
    /\ ~IsKey(res[1][1], arg.seg.keys[1]) /\ ~IsKey(res[1][1], arg.seg.keys[2])


\* the milliseconds an interval, and a list of intervals, extends over
Cells(iv) == {t \in 0..(MaxDur + 1) : iv[1] <= t /\ t < iv[2]}
CellsOf(ivs) == UNION {Cells(ivs[i]) : i \in 1..Len(ivs)}
SkipsInside == \A i \in 1..Len(arg.skips) : arg.skips[i][2] <= arg.total_ms

C16_RenderedObjectReused ==
    [][\A h \in rendered :
          (/\ dresp'.code = 200 /\ dresp'.presigned
           /\ dresp'.video_id = h.video_id
           /\ dresp'.job = h.job
           /\ dresp'.profile = h.profile)
          => (renders' = renders /\ dresp'.object = h.object)]_vars


\* the number of marker lists derived for a video and a profile hash
DerivedFor(v, h) == Cardinality({i \in 1..Len(derived) : derived[i] = <<v, h>>})

(* C17. Whatever render_or_get calls have run, interleaved ones included,  *)
(* there is at most one RedactionPlan per (video_id, profile_hash), the    *)
(* marker list of a (video_id, profile_hash) has been derived at most      *)
(* once, and profiles equal in mode, allow flags, allow_map, mode_map and  *)
(* extras have the same profile_hash whatever their id or name.            *)
C17_OnePlanDerivedOnce ==
    /\ \A p1, p2 \in plans :
          (p1.video_id = p2.video_id /\ p1.profile_hash = p2.profile_hash) => p1 = p2
    /\ \A i \in 1..Len(derived) : DerivedFor(derived[i][1], derived[i][2]) <= 1
    /\ \A i, k \in 1..Len(profiles) :
          (/\ profiles[i].mode = profiles[k].mode
           /\ profiles[i].allow = profiles[k].allow
           /\ profiles[i].allow_map = profiles[k].allow_map
           /\ profiles[i].mode_map = profiles[k].mode_map
           /\ profiles[i].extras = profiles[k].extras)
          => compute_profile_hash(profile_to_dict(profiles[i]))
               = compute_profile_hash(profile_to_dict(profiles[k]))


(* C18. quantize(x, bands, cuts) is bands[i] for the first i with          *)
(* x >= cuts[i] and the last band when x is below every cut; for the       *)
(* alcohol preset on_raw >= 0.52 gives on = 0.55, [0.475, 0.52) gives      *)
(* 0.50, [0.425, 0.475) gives 0.45 and on_raw < 0.375 gives 0.35; the      *)
(* emitted on is always one of the preset's bands.                         *)
C18_BandQuantization ==
    res # None =>
      LET p == presets_default[arg.class]  x == arg.on_raw  on == res[1].on IN
        /\ \A i \in 1..Len(p.cuts) :
              (x >= p.cuts[i] /\ \A k \in 1..(i - 1) : x < p.cuts[k]) => on = p.bands[i]
        /\ (\A k \in 1..Len(p.cuts) : x < p.cuts[k]) => on = p.bands[Len(p.bands)]
        /\ \E i \in 1..Len(p.bands) : on = p.bands[i]
        /\ arg.class = "alcohol" =>
              /\ x >= 520 => on = 550
              /\ (475 <= x /\ x < 520) => on = 500
              /\ (425 <= x /\ x < 475) => on = 450
              /\ x < 375 => on = 350
C18_Witness ==
    /\ res # None
    /\ arg.class = "alcohol" /\ arg.on_raw = 520
    /\ res[1].on = 550


\* the calls attempted so far are a start, then ingests, then at most one finish
CallOrder ==
    /\ \A i \in 1..Len(o_calls) : (o_calls[i].kind = "start") <=> (i = 1)
    /\ \A i \in 1..Len(o_calls) : o_calls[i].kind = "finish" => i = Len(o_calls)
    /\ o_pc # "start" => Len(o_calls) >= 1
OrchOver == o_pc \in {"done", "raised"}
FinishSent(status) ==
    /\ o_calls # <<>>
    /\ o_calls[Len(o_calls)].kind = "finish"
    /\ o_calls[Len(o_calls)].status = status

----------------------------------------------------------------------------
(* C20. For every detection log, cut-label set, minimum-score map and       *)
(* hold_gap_ms / grace_ms / min_skip_ms, the cut intervals the stream        *)
(* service computes with _calc_skip_intervals are the same [start, end]      *)
(* intervals as the skip intervals the renderer computes from the same       *)
(* inputs.                                                                   *)
BothComputed == res.service # None /\ res.renderer # None
C20_SameSkipIntervals == BothComputed => res.service = res.renderer

----------------------------------------------------------------------------
(* C21. DetectionEvents are immutable once their job is finished: after a  *)
(* job has reached done or failed, no step adds, changes or removes a      *)
(* DetectionEvent of that job.                                             *)
DetsOfJob(ds, j) == SelectSeq(ds, LAMBDA r : r.job_id = j)
TerminalJob(j) == jobs[j].status \in {"done", "failed"}
C21_TerminalDetectionsFrozen ==
    [][\A j \in 1..Len(jobs) :
          TerminalJob(j) => DetsOfJob(dets', j) = DetsOfJob(dets, j)]_vars

----------------------------------------------------------------------------
(* C22. Lock hysteresis of the Temporal Stabilizer: in an update a track's *)
(* locked class changes only from none to the class of the detection       *)
(* matched in that update, whose score is at least that class's enter      *)
(* threshold (the lock expiry becomes t + grace), or from a class to none  *)
(* in an update where the track was matched, t is at or past the lock      *)
(* expiry and the score is below the locked class's exit threshold.  It    *)
(* never goes from one class to another, never changes before the lock     *)
(* expiry and never changes without a detection.                           *)
ClassBefore(tid) == IF tid \in DOMAIN st_tracks THEN st_tracks[tid].cls_state ELSE -1
ExpiryBefore(tid) == IF tid \in DOMAIN st_tracks THEN st_tracks[tid].lock_until_ms ELSE 0
LockTaken(tid) ==
    /\ ClassBefore(tid) = -1
    /\ tid \in DOMAIN st_assigned'
    /\ st_tracks'[tid].cls_state = st_assigned'[tid][6]
    /\ st_assigned'[tid][5] >= Get(enter_thr, st_assigned'[tid][6], 60)
    /\ st_tracks'[tid].lock_until_ms = st_t' + st_grace_ms
LockDropped(tid) ==
    /\ ClassBefore(tid) # -1
    /\ st_tracks'[tid].cls_state = -1
    /\ tid \in DOMAIN st_assigned'
    /\ st_t' >= ExpiryBefore(tid)
    /\ st_assigned'[tid][5] < Get(exit_thr, ClassBefore(tid), 45)
C22_LockHysteresis ==
    [][\A tid \in DOMAIN st_tracks' :
          st_tracks'[tid].cls_state # ClassBefore(tid) => (LockTaken(tid) \/ LockDropped(tid))]_vars
\* a track that was locked and, three detections in, has lost its lock
C22_Witness ==
    \E tid \in DOMAIN st_tracks :
        /\ st_tracks[tid].cls_state = -1
        /\ st_tracks[tid].lock_until_ms > 0
        /\ Len(st_tracks[tid].cls_hist) >= 3

----------------------------------------------------------------------------
(* C23. A track that received a detection in this update is emitted if and *)
(* only if, after the lock update, it is locked, at least N of the last M  *)
(* entries of its class history equal the locked class and the current     *)
(* score is at least the locked class's final-output minimum; the emitted  *)
(* tuple carries the current box and score and the locked class.           *)
EmittedAs(out, tid) == {out[i].det : i \in {k \in 1..Len(out) : out[k].tid = tid}}
TailOf(hist, M) == [i \in 1..Min({M, Len(hist)}) |-> hist[Len(hist) - Min({M, Len(hist)}) + i]]
NofMOfLocked(trk) ==
    Cardinality({i \in DOMAIN TailOf(trk.cls_hist, Get(n_of_m, trk.cls_state, <<2, 5>>)[2]) :
                    TailOf(trk.cls_hist, Get(n_of_m, trk.cls_state, <<2, 5>>)[2])[i] = trk.cls_state})
      >= Get(n_of_m, trk.cls_state, <<2, 5>>)[1]
ShouldEmit(trk, det) ==
    /\ trk.cls_state # -1
    /\ NofMOfLocked(trk)
    /\ det[5] >= Get(min_conf_map, trk.cls_state, 50)
C23_MatchedEmission ==
    [][\A tid \in DOMAIN st_assigned' :
          /\ tid \in DOMAIN st_tracks'
          /\ EmittedAs(st_out', tid) =
               IF ShouldEmit(st_tracks'[tid], st_assigned'[tid])
                 THEN {<<st_assigned'[tid][1], st_assigned'[tid][2], st_assigned'[tid][3],
                         st_assigned'[tid][4], st_assigned'[tid][5],
                         st_tracks'[tid].cls_state>>}
                 ELSE {}]_vars
\* a matched track emitted under its locked class although the detection
\* of this update has another class
C23_Witness ==
    \E i \in 1..Len(st_out) :
        /\ st_out[i].tid \in DOMAIN st_assigned
        /\ st_assigned[st_out[i].tid][6] # st_out[i].det[6]

----------------------------------------------------------------------------
(* C24. A track that received no detection in this update is emitted, with *)
(* its last known box, score and locked class, if and only if              *)
(* t - last_seen <= hold_gap and it is locked and confirmed; it is removed *)
(* if and only if it was not emitted and t - last_seen > max(hold_gap,     *)
(* 2000 ms); in every other case it stays unchanged and silent.            *)
Unmatched == DOMAIN st_tracks \ DOMAIN st_assigned'
ShouldHold(trk, t) ==
    /\ t - trk.last_seen_ms <= st_hold_gap_ms
    /\ trk.cls_state # -1
    /\ trk.confirmed
C24_HoldAndDiscard ==
    [][\A tid \in Unmatched :
          /\ EmittedAs(st_out', tid) =
               IF ShouldHold(st_tracks[tid], st_t')
                 THEN {<<st_tracks[tid].det[1], st_tracks[tid].det[2], st_tracks[tid].det[3],
                         st_tracks[tid].det[4], st_tracks[tid].det[5],
                         st_tracks[tid].cls_state>>}
                 ELSE {}
          /\ tid \notin DOMAIN st_tracks' <=>
               (/\ ~ShouldHold(st_tracks[tid], st_t')
                /\ st_t' - st_tracks[tid].last_seen_ms > Max({st_hold_gap_ms, 2000}))
          /\ tid \in DOMAIN st_tracks' => st_tracks'[tid] = st_tracks[tid]]_vars
\* one track carried through a missed update, another one discarded
C24_Witness ==
    /\ \E i \in 1..Len(st_out) : st_out[i].tid \notin DOMAIN st_assigned
    /\ st_next_tid - 1 > Cardinality(DOMAIN st_tracks)

----------------------------------------------------------------------------
(* C25. The consolidated skip intervals are sorted, pairwise disjoint and  *)
(* non-touching, each at least min_skip_ms long, and their union is the    *)
(* union of the skip segments' spans minus the merged components shorter   *)
(* than min_skip_ms; if one survives, audio retention is off and no frame  *)
(* with a timestamp inside a skip interval is written.                     *)
\* the points of [s, e] on a grid of half milliseconds: two spans share a
\* point exactly when they overlap or touch
HalfPoints(s, e) == (2 * s)..(2 * e)
Covered(ss) == UNION {HalfPoints(ss[i].start_ms, ss[i].end_ms) : i \in 1..Len(ss)}
\* the merged component of a covered point: the run of covered points around it
RunStart(P, p) == Min({q \in P : q <= p /\ \A x \in q..p : x \in P})
RunEnd(P, p)   == Max({q \in P : q >= p /\ \A x \in p..q : x \in P})
LongEnough(P, min_ms) == {p \in P : RunEnd(P, p) - RunStart(P, p) >= 2 * min_ms}
CoveredByIvs(ivs) == UNION {HalfPoints(ivs[i][1], ivs[i][2]) : i \in 1..Len(ivs)}
Apart(ivs) == \A i \in 1..(Len(ivs) - 1) : ivs[i][2] < ivs[i + 1][1]
C25_SkipConsolidation ==
    res # None =>
      /\ Apart(res[1].skip_intervals)
      /\ \A i \in 1..Len(res[1].skip_intervals) :
            res[1].skip_intervals[i][2] - res[1].skip_intervals[i][1] >= arg.min_skip_ms
      /\ CoveredByIvs(res[1].skip_intervals) = LongEnough(Covered(arg.seg_skip), arg.min_skip_ms)
      /\ res[1].skip_intervals # <<>> =>
            /\ ~res[1].keep_audio
            /\ \A ts \in res[1].written :
                  \A i \in 1..Len(res[1].skip_intervals) :
                     ~(res[1].skip_intervals[i][1] <= ts /\ ts <= res[1].skip_intervals[i][2])
\* three segments, two of them touching, merged into one interval that is kept
\* while the third, too short, is dropped; audio was asked for
C25_Witness ==
    /\ res # None
    /\ Len(arg.seg_skip) = 3
    /\ arg.keep_audio
    /\ arg.min_skip_ms = 2
    /\ Len(res[1].skip_intervals) = 1
    /\ arg.seg_skip[1].end_ms = arg.seg_skip[2].start_ms
    /\ arg.seg_skip[3].start_ms > arg.seg_skip[2].end_ms
    /\ res[1].written # {}

----------------------------------------------------------------------------
(* C26. Segmentation invariant of build_segments_multi: every input event  *)
(* is a keyframe of exactly one segment; the keyframes of a segment have   *)
(* the segment's label, strictly increasing timestamps and consecutive     *)
(* gaps of at most hold_gap_ms; start_ms is the first keyframe's timestamp *)
(* and end_ms the last keyframe's timestamp + grace_ms.                    *)
\* how often the event e occurs in the log, and as a keyframe of a segment
TimesLogged(events, e) == Cardinality({i \in 1..Len(events) : events[i] = e})
TimesKeyed(segs, e) ==
    Cardinality({p \in (1..Len(segs)) \X (1..MaxEvents + 1) :
                    /\ p[2] <= Len(segs[p[1]].keys)
                    /\ segs[p[1]].label = e.label
                    /\ segs[p[1]].keys[p[2]] = <<e.ts_ms, e.bbox, e.score>>})
KeysTotal(segs) ==
    Cardinality({p \in (1..Len(segs)) \X (1..MaxEvents + 1) : p[2] <= Len(segs[p[1]].keys)})
WellFormedSegment(seg, hold_gap, grace) ==
    /\ Len(seg.keys) >= 1
    /\ \A k \in 1..(Len(seg.keys) - 1) :
          /\ seg.keys[k][1] < seg.keys[k + 1][1]
          /\ seg.keys[k + 1][1] - seg.keys[k][1] <= hold_gap
    /\ seg.start_ms = seg.keys[1][1]
    /\ seg.end_ms = seg.keys[Len(seg.keys)][1] + grace
----------------------------------------------------------------------------
(* C27. A refresh token is consumed at most once also under concurrency:   *)
(* of the POST /auth/refresh requests that presented one refresh token, in *)
(* any interleaving of their database steps, at most one was answered 200  *)
(* and at most one new refresh-token row was created from that token.      *)
SucceededWith(jti) == {e \in rf_log : e.code = 200 /\ e.jti = jti}
C27_RefreshConsumedOnce ==
    \A e \in rf_log : Cardinality(SucceededWith(e.jti)) <= 1

----------------------------------------------------------------------------
(* C28. Each AnalysisJob is analysed by at most one executor: a job that   *)
(* the legacy Uploads Router created and handed to its background          *)
(* orchestrator task is never the job the Background Worker has picked up. *)
HandedToBackground(j) == bg[j] # "none"
C28_OneExecutorPerJob ==
    \A j \in JobIds : HandedToBackground(j) => w_job # j

----------------------------------------------------------------------------
(* C29. Every AnalysisJob created by POST /videos/upload is in a terminal  *)
(* status once the request has completed: done when the analyzer and the   *)
(* ingestion succeeded (the request answers 200), failed when either of    *)
(* them failed (the request answers 500); it is never left running.        *)
UploadCompleted == Len(jobs') = Len(jobs) + 1 /\ videos' # videos
StatusAfterUpload == IF resp'.code = 200 THEN "done" ELSE "failed"
C29_UploadJobTerminal ==
    [][UploadCompleted => jobs'[Len(jobs')].status = StatusAfterUpload]_vars

----------------------------------------------------------------------------
(* C30. Within one orchestrator run each kept detection is stored for the  *)
(* job at most once, whichever way the ingest calls end (returned, failed  *)
(* before the server, failed after the server committed), and a detection  *)
(* leaves the buffer only in a step whose ingest call contained it and     *)
(* returned.                                                               *)
InSeq(x, s) == \E i \in 1..Len(s) : s[i] = x
StoredOnce(rows) == \A i, k \in 1..Len(rows) : rows[i] = rows[k] => i = k
LastCallReturned ==
    /\ Len(o_calls') = Len(o_calls) + 1
    /\ o_calls'[Len(o_calls')].kind = "ingest"
    /\ o_calls'[Len(o_calls')].ok
ClearedOnlyOnReturn ==
    \A i \in 1..Len(ob_items) :
        ~InSeq(ob_items[i], ob_items') => (LastCallReturned /\ InSeq(ob_items[i], ob_rows'))
C30_EachDetectionStoredOnce ==
    [][StoredOnce(ob_rows') /\ ClearedOnlyOnReturn]_vars

====
